---- MODULE Spec2Model ----
(***************************************************************************)
(* GTFS_Boss: the feed validator (core/validator.py) and the report        *)
(* generator (core/report_generator.py) as state machines.                 *)
(*                                                                         *)
(* A feed is a Python object: a function from the names of the attributes  *)
(* it has to their values.  A value is None, a pandas DataFrame, a tuple   *)
(* or some other object (a list).  A DataFrame is its column names and its *)
(* rows; a cell is <<>> when missing (NaN) and <<v>> when it holds v.      *)
(* Python lists live in a heap and are held by reference, so that two      *)
(* holders of one list see each other's appends.                           *)
(***************************************************************************)
EXTENDS Integers, Sequences, FiniteSets, TLC

VARIABLES
    feed,       \* the feed handed to the last validate_feed call (the next one, before the first call)
    heap,       \* the Python list objects, by reference (index)
    errors,     \* GTFSValidator.errors: a reference into heap
    warnings,   \* GTFSValidator.warnings: a reference into heap
    returned,   \* the dicts validate_feed has returned, oldest first
    completed,  \* the checks the last validate_feed call ran to completion, in order
    raised,     \* str(e) of the exception the last validate_feed call caught, <<>> if none
    report_feed,        \* GTFSReportGenerator.feed
    validation_arg,     \* the validation_results argument of generate_report
    validation_results, \* GTFSReportGenerator.validation_results
    report,             \* what generate_report came to: not called, a returned dict, an exception
    exported,           \* what an export of the report came to: none made, a text, an exception
    upstream,                   \* what the three real-time URLs answer to a request
    pc,                         \* where get_realtime_vehicles stands
    vehicle_positions_data,     \* the parsed Vehicle Positions feed
    trip_updates_data,          \* the parsed Trip Updates feed
    service_alerts_data,        \* the parsed Service Alerts feed
    vehicle_positions,          \* the vehicles extracted from vehicle_positions_data
    trip_deviations,            \* the deviation of each trip id, from trip_updates_data
    response,                   \* what get_realtime_vehicles answered
    serving,                    \* the startup event of the router has run
    current_feed_zip,           \* data/uploaded_feeds/current_feed.zip: what reading it gives
    last_validated_feed,        \* the global last_validated_feed
    uploads,                    \* the uploads POST /validate received, oldest first
    answered                    \* the last request to /validate or /report and its response

vvars == <<feed, heap, errors, warnings, returned, completed, raised>>
rvars == <<report_feed, validation_arg, validation_results, report, exported>>
tvars == <<upstream, pc, vehicle_positions_data, trip_updates_data, service_alerts_data,
           vehicle_positions, trip_deviations, response>>
svars == <<serving, current_feed_zip, last_validated_feed, uploads, answered>>
vars == <<vvars, rvars, tvars, svars>>

(***************************************************************************)
(* Bounds of the model.                                                    *)
(***************************************************************************)
MaxId == 2      \* service and route identifiers are 1..MaxId
MaxRows == 2    \* rows of a trips or stops table
MaxCalls == 3   \* validate_feed calls on one validator
FrameCols == 5  \* columns of the one-row tables completeness is computed on
MaxErrors == 2  \* errors of a validation result handed to generate_report
MaxWarnings == 1    \* warnings of a validation result handed to generate_report
MaxVehicles == 2    \* entities of a Vehicle Positions feed
MaxUpdates == 2     \* stop-time updates of a trip update
MaxEntities == 2    \* entities of a Trip Updates feed

(***************************************************************************)
(* Python and pandas values.                                               *)
(***************************************************************************)
NA == <<>>
Cell(v) == <<v>>
IsNA(c) == c = NA

None == [kind |-> "none"]
Unbound == [kind |-> "unbound"]     \* a local variable before its assignment
DataFrame(cols, rows) == [kind |-> "df", cols |-> cols, rows |-> rows]
Tuple(items) == [kind |-> "tuple", items |-> items]
List == [kind |-> "list"]

Range(s) == {s[i] : i \in 1..Len(s)}

\* hasattr(feed, name)
HasAttr(f, name) == name \in DOMAIN f

\* isinstance(value, pd.DataFrame)
IsDataFrame(v) == v.kind = "df"

\* DataFrame.empty: some axis has length 0
Empty(df) == Len(df.rows) = 0 \/ Len(df.cols) = 0

\* 'name' in df.columns
HasColumn(df, name) == name \in Range(df.cols)

\* df.name, df['name']: the cells of a column, in row order
Column(df, name) ==
    LET c == CHOOSE i \in 1..Len(df.cols) : df.cols[i] = name
    IN  [r \in 1..Len(df.rows) |-> df.rows[r][c]]

\* type(value).__name__, as AttributeError reports it
TypeName(v) ==
    CASE v.kind = "df" -> "DataFrame"
      [] v.kind = "tuple" -> "tuple"
      [] v.kind = "list" -> "list"
      [] OTHER -> "NoneType"

\* str(e) of the AttributeError raised by value.attr
AttributeError(v, attr) == <<"'", TypeName(v), "' object has no attribute '", attr, "'">>

\* The idiom `hasattr(feed, a) and feed.a is not None and not feed.a.empty`:
\* "true", "false", or "raise" when feed.a has no attribute `empty`.
NonEmptyFrame(f, a) ==
    IF ~HasAttr(f, a) THEN "false"
    ELSE IF f[a] = None THEN "false"
    ELSE IF ~IsDataFrame(f[a]) THEN "raise"
    ELSE IF Empty(f[a]) THEN "false"
    ELSE "true"

(***************************************************************************)
(* Issues: the dicts appended to the error list.  A message is its fixed   *)
(* text, the names formatted into it and the identifiers formatted into it.*)
(***************************************************************************)
Message(fmt, names, ids) == [fmt |-> fmt, names |-> names, ids |-> ids]

FileIssue(type, file, fmt) ==
    [type |-> type, file |-> file, message |-> Message(fmt, <<file>>, <<>>)]

\* The items of a set of integers in increasing order: the listing of a set
RECURSIVE SetToSeq(_)
SetToSeq(S) ==
    IF S = {} THEN <<>>
    ELSE LET m == CHOOSE x \in S : \A y \in S : x <= y
         IN  <<m>> \o SetToSeq(S \ {m})

(***************************************************************************)
(* GTFSValidator._validate_required_files                                  *)
(***************************************************************************)
required_files == <<"agency.txt", "stops.txt", "routes.txt", "trips.txt", "stop_times.txt">>

\* file.replace(".txt", "")
AttrName(file) ==
    CASE file = "agency.txt" -> "agency"
      [] file = "stops.txt" -> "stops"
      [] file = "routes.txt" -> "routes"
      [] file = "trips.txt" -> "trips"
      [] file = "stop_times.txt" -> "stop_times"

\* The body of the loop for one file: the issues it appends
RequiredFileIssues(f, file) ==
    LET attr_name == AttrName(file) IN
    IF ~HasAttr(f, attr_name)
    THEN <<FileIssue("missing_file", file, "Required file {file} is missing")>>
    ELSE LET file_data == f[attr_name] IN
         IF file_data = None
         THEN <<FileIssue("empty_file", file, "Required file {file} is empty or invalid")>>
         ELSE IF IsDataFrame(file_data)
         THEN IF Empty(file_data)
              THEN <<FileIssue("empty_file", file, "Required file {file} contains no data")>>
              ELSE <<>>
         ELSE IF file_data.kind = "tuple" /\ Len(file_data.items) = 2
         THEN IF file_data.items[1] = 0
              THEN <<FileIssue("empty_file", file, "Required file {file} contains no data")>>
              ELSE <<>>
         ELSE <<FileIssue("invalid_file", file,
                          "Required file {file} is not a valid DataFrame or tuple")>>

\* A loop that stops at the first defective file
RECURSIVE RequiredFromFirstOnly(_, _, _)
RequiredFromFirstOnly(f, i, errs) ==
    IF i > Len(required_files) \/ Len(errs) > 0 THEN errs
    ELSE RequiredFromFirstOnly(f, i + 1, errs \o RequiredFileIssues(f, required_files[i]))

RECURSIVE RequiredFrom(_, _, _)
RequiredFrom(f, i, errs) ==
    IF i > Len(required_files) THEN errs
    ELSE RequiredFrom(f, i + 1, errs \o RequiredFileIssues(f, required_files[i]))

\* self.errors after the call, given self.errors before it
validate_required_files(f, errs) == RequiredFrom(f, 1, errs)

(***************************************************************************)
(* The outcome of a check: the error list it leaves, the str(e) of the     *)
(* exception it raised (<<>> when it returned), the sub-checks it finished.*)
(***************************************************************************)
Returns(errs, done) == [errors |-> errs, raised |-> <<>>, completed |-> done]
Raises(errs, e, done) == [errors |-> errs, raised |-> e, completed |-> done]

\* set(df.name): the values of an identifier column (identifiers are never missing)
IdSet(df, name) == {c[1] : c \in {x \in Range(Column(df, name)) : ~IsNA(x)}}

\* has_calendar, has_calendar_dates: "true", "false" or "raise"
HasServiceIds(f, a) ==
    IF NonEmptyFrame(f, a) = "true"
    THEN IF HasColumn(f[a], "service_id") THEN "true" ELSE "false"
    ELSE NonEmptyFrame(f, a)

\* service_ids_in_calendar, service_ids_in_calendar_dates
ServiceIdsIn(f, a) ==
    IF HasServiceIds(f, a) = "true" THEN IdSet(f[a], "service_id") ELSE {}

\* valid_service_ids
ValidServiceIds(f) == ServiceIdsIn(f, "calendar") \cup ServiceIdsIn(f, "calendar_dates")

CalendarMissingIssue ==
    [type |-> "missing_file", file |-> "calendar.txt/calendar_dates.txt",
     message |-> Message("Both calendar.txt and calendar_dates.txt are missing or invalid, cannot validate service_id references.",
                         <<>>, <<>>)]

ServiceIdIssue(ids) ==
    [type |-> "foreign_key",
     message |-> Message("Invalid service_id references in trips.txt: {ids}", <<>>, SetToSeq(ids))]

RouteIdIssue(ids) ==
    [type |-> "foreign_key",
     message |-> Message("Invalid route_id references in trips.txt: {ids}", <<>>, SetToSeq(ids))]

CoordinatesIssue(ids) ==
    [type |-> "coordinates",
     message |-> Message("Invalid coordinates found in stops.txt: {ids}", <<>>, ids)]

\* Service ids looked up in calendar alone
InvalidServiceIdsCalendarOnly(f) ==
    IdSet(f["trips"], "service_id") \ ServiceIdsIn(f, "calendar")

\* invalid_service_ids
InvalidServiceIds(f) == IdSet(f["trips"], "service_id") \ ValidServiceIds(f)

\* The difference taken the wrong way round
InvalidRouteIdsReversed(f) == IdSet(f["routes"], "route_id") \ IdSet(f["trips"], "route_id")

\* invalid_route_ids
InvalidRouteIds(f) == IdSet(f["trips"], "route_id") \ IdSet(f["routes"], "route_id")

(***************************************************************************)
(* GTFSValidator._validate_foreign_keys, first half: trips.service_id      *)
(***************************************************************************)
\* The same check without the issue of the two calendar files
ServiceIdCheckSilent(f, errs) ==
    IF NonEmptyFrame(f, "trips") = "raise"
    THEN Raises(errs, AttributeError(f["trips"], "empty"), <<>>)
    ELSE IF NonEmptyFrame(f, "trips") = "false"
    THEN Returns(errs, <<"service_id">>)
    ELSE IF ~HasColumn(f["trips"], "service_id")
    THEN Raises(errs, AttributeError(f["trips"], "service_id"), <<>>)
    ELSE IF HasServiceIds(f, "calendar") = "raise"
    THEN Raises(errs, AttributeError(f["calendar"], "empty"), <<>>)
    ELSE IF HasServiceIds(f, "calendar_dates") = "raise"
    THEN Raises(errs, AttributeError(f["calendar_dates"], "empty"), <<>>)
    ELSE IF HasServiceIds(f, "calendar") # "true" /\ HasServiceIds(f, "calendar_dates") # "true"
    THEN Returns(errs, <<"service_id">>)
    ELSE IF InvalidServiceIds(f) # {}
    THEN Returns(Append(errs, ServiceIdIssue(InvalidServiceIds(f))), <<"service_id">>)
    ELSE Returns(errs, <<"service_id">>)

ServiceIdCheck(f, errs) ==
    IF NonEmptyFrame(f, "trips") = "raise"
    THEN Raises(errs, AttributeError(f["trips"], "empty"), <<>>)
    ELSE IF NonEmptyFrame(f, "trips") = "false"
    THEN Returns(errs, <<"service_id">>)
    ELSE IF ~HasColumn(f["trips"], "service_id")
    THEN Raises(errs, AttributeError(f["trips"], "service_id"), <<>>)
    ELSE IF HasServiceIds(f, "calendar") = "raise"
    THEN Raises(errs, AttributeError(f["calendar"], "empty"), <<>>)
    ELSE IF HasServiceIds(f, "calendar_dates") = "raise"
    THEN Raises(errs, AttributeError(f["calendar_dates"], "empty"), <<>>)
    ELSE LET has_calendar == HasServiceIds(f, "calendar") = "true"
             has_calendar_dates == HasServiceIds(f, "calendar_dates") = "true"
         IN  IF ~has_calendar /\ ~has_calendar_dates
             THEN Returns(Append(errs, CalendarMissingIssue), <<"service_id">>)
             ELSE IF InvalidServiceIds(f) # {}
             THEN Returns(Append(errs, ServiceIdIssue(InvalidServiceIds(f))), <<"service_id">>)
             ELSE Returns(errs, <<"service_id">>)

(***************************************************************************)
(* GTFSValidator._validate_foreign_keys, second half: trips.route_id       *)
(***************************************************************************)
RouteIdCheck(f, errs) ==
    IF NonEmptyFrame(f, "trips") = "raise"
    THEN Raises(errs, AttributeError(f["trips"], "empty"), <<>>)
    ELSE IF NonEmptyFrame(f, "trips") = "false"
    THEN Returns(errs, <<"route_id">>)
    ELSE IF NonEmptyFrame(f, "routes") = "raise"
    THEN Raises(errs, AttributeError(f["routes"], "empty"), <<>>)
    ELSE IF NonEmptyFrame(f, "routes") = "true"
            /\ HasColumn(f["trips"], "route_id") /\ HasColumn(f["routes"], "route_id")
    THEN IF InvalidRouteIds(f) # {}
         THEN Returns(Append(errs, RouteIdIssue(InvalidRouteIds(f))), <<"route_id">>)
         ELSE Returns(errs, <<"route_id">>)
    ELSE Returns(errs, <<"route_id">>)

validate_foreign_keys(f, errs) ==
    LET s == ServiceIdCheck(f, errs) IN
    IF s.raised # <<>> THEN s
    ELSE LET r == RouteIdCheck(f, s.errors)
         IN  [r EXCEPT !.completed = s.completed \o r.completed]

(***************************************************************************)
(* GTFSValidator._validate_coordinates                                     *)
(***************************************************************************)
\* The row indices of stops.dropna(subset=['stop_lat', 'stop_lon'])
ValidStops(stops) ==
    {r \in 1..Len(stops.rows) :
        ~IsNA(Column(stops, "stop_lat")[r]) /\ ~IsNA(Column(stops, "stop_lon")[r])}

\* Limits that exclude the boundary
OutOfRangeExclusive(lat, lon) == lat <= -90 \/ lat >= 90 \/ lon <= -180 \/ lon >= 180

\* The row filter of invalid_coords
OutOfRange(lat, lon) == lat < -90 \/ lat > 90 \/ lon < -180 \/ lon > 180

InvalidCoords(stops) ==
    {r \in ValidStops(stops) :
        OutOfRange(Column(stops, "stop_lat")[r][1], Column(stops, "stop_lon")[r][1])}

\* invalid_coords.stop_id.tolist(): the ids of the selected rows, in row order
StopIdList(stops, rows) ==
    LET idx == SetToSeq(rows)
    IN  [i \in 1..Len(idx) |-> Column(stops, "stop_id")[idx[i]][1]]

validate_coordinates(f, errs) ==
    IF NonEmptyFrame(f, "stops") = "raise"
    THEN Raises(errs, AttributeError(f["stops"], "empty"), <<>>)
    ELSE IF NonEmptyFrame(f, "stops") = "true"
            /\ HasColumn(f["stops"], "stop_lat") /\ HasColumn(f["stops"], "stop_lon")
            /\ HasColumn(f["stops"], "stop_id")
    THEN IF ValidStops(f["stops"]) # {} /\ InvalidCoords(f["stops"]) # {}
         THEN Returns(Append(errs, CoordinatesIssue(StopIdList(f["stops"], InvalidCoords(f["stops"])))),
                      <<"coordinates">>)
         ELSE Returns(errs, <<"coordinates">>)
    ELSE Returns(errs, <<"coordinates">>)

(***************************************************************************)
(* GTFSValidator.validate_feed                                             *)
(***************************************************************************)
\* No reset: the field keeps its list
KeepList(h, ref) == [heap |-> h, ref |-> ref]

\* `self.x = []`: the field x, which held the list ref, is bound to a new empty list
FreshList(h, ref) == [heap |-> Append(h, <<>>), ref |-> Len(h) + 1]

\* The three checks, the last two whatever the first one found
validate_checks_unconditional(f, errs) ==
    LET req == validate_required_files(f, errs)
        fk == validate_foreign_keys(f, req)
    IN  IF fk.raised # <<>>
        THEN [fk EXCEPT !.completed = <<"required_files">> \o fk.completed]
        ELSE LET co == validate_coordinates(f, fk.errors)
             IN  [co EXCEPT !.completed = <<"required_files">> \o fk.completed \o co.completed]

\* The try block after the reset: the three checks on the error list errs
validate_checks(f, errs) ==
    LET req == validate_required_files(f, errs) IN
    IF Len(req) = 0
    THEN LET fk == validate_foreign_keys(f, req) IN
         IF fk.raised # <<>>
         THEN [fk EXCEPT !.completed = <<"required_files">> \o fk.completed]
         ELSE LET co == validate_coordinates(f, fk.errors)
              IN  [co EXCEPT !.completed = <<"required_files">> \o fk.completed \o co.completed]
    ELSE Returns(req, <<"required_files">>)

\* The dict of the except branch's error list
InternalErrorIssue(e) == [message |-> Message("Failed to validate feed: {e}", e, <<>>)]

\* Validity read off the warning list
ReturnResultByWarnings(h, e, w) ==
    [heap |-> h,
     result |-> [is_valid |-> Len(h[w]) = 0, errors |-> e, warnings |-> w]]

\* The return of the try block: the dict holds the validator's own two lists
ReturnResult(h, e, w) ==
    [heap |-> h,
     result |-> [is_valid |-> Len(h[e]) = 0, errors |-> e, warnings |-> w]]

\* An except block that keeps the accumulated errors
ExceptResultKeepsErrors(h, e, w, exc) ==
    [heap |-> h \o <<h[e] \o <<InternalErrorIssue(exc)>>, <<>> >>,
     result |-> [is_valid |-> FALSE, errors |-> Len(h) + 1, warnings |-> Len(h) + 2]]

\* The return of the except block: the dict holds two new lists
ExceptResult(h, e, w, exc) ==
    [heap |-> h \o << <<InternalErrorIssue(exc)>>, <<>> >>,
     result |-> [is_valid |-> FALSE, errors |-> Len(h) + 1, warnings |-> Len(h) + 2]]

ValidateFeed(f) ==
    LET e == FreshList(heap, errors)
        w == FreshList(e.heap, warnings)
        out == validate_checks(f, w.heap[e.ref])
        h == [w.heap EXCEPT ![e.ref] = out.errors]
        ret == IF out.raised = <<>> THEN ReturnResult(h, e.ref, w.ref)
               ELSE ExceptResult(h, e.ref, w.ref, out.raised)
    IN  /\ feed' = f
        /\ errors' = e.ref
        /\ warnings' = w.ref
        /\ completed' = out.completed
        /\ raised' = out.raised
        /\ heap' = ret.heap
        /\ returned' = Append(returned, ret.result)

(***************************************************************************)
(* The feeds the validator is run on.                                      *)
(***************************************************************************)
Absent == [kind |-> "absent"]   \* the feed has no such attribute

MakeFeed(t) == [a \in {x \in DOMAIN t : t[x] # Absent} |-> t[a]]

EmptyFrame == DataFrame(<<"id">>, <<>>)
CountsTuple == Tuple(<<2, 3>>)       \* (rows, columns) with rows
NoRowsTuple == Tuple(<<0, 3>>)       \* (rows, columns) without rows
Triple == Tuple(<<0, 0, 0>>)

AgencyFrame == DataFrame(<<"agency_name">>, << <<Cell(1)>> >>)
StopTimesFrame == DataFrame(<<"trip_id">>, << <<Cell(1)>> >>)

\* ids: a sequence of identifiers, one row each
IdFrame(col, ids) == DataFrame(<<col>>, [i \in 1..Len(ids) |-> <<Cell(ids[i])>>])

\* S: a set of <<service_id, route_id>> pairs, one row each
TripRows(S) ==
    LET RECURSIVE Rows(_)
        Rows(T) == IF T = {} THEN <<>>
                   ELSE LET m == CHOOSE x \in T : \A y \in T :
                                     x[1] < y[1] \/ (x[1] = y[1] /\ x[2] <= y[2])
                        IN  <<m>> \o Rows(T \ {m})
    IN  Rows(S)

TripsFrame(cols, S) ==
    LET rows == TripRows(S)
    IN  DataFrame(cols, [i \in 1..Len(rows) |->
            [c \in 1..Len(cols) |-> IF cols[c] = "service_id" THEN Cell(rows[i][1])
                                    ELSE Cell(rows[i][2])]])

\* coords: a sequence of <<lat cell, lon cell>>; the stop of row i has id i
StopsFrame(cols, coords) ==
    DataFrame(cols, [i \in 1..Len(coords) |->
        [c \in 1..Len(cols) |-> IF cols[c] = "stop_id" THEN Cell(i)
                                ELSE IF cols[c] = "stop_lat" THEN coords[i][1]
                                ELSE coords[i][2]]])

StopCols == <<"stop_id", "stop_lat", "stop_lon">>

BaseTables ==
    [agency |-> AgencyFrame,
     stops |-> StopsFrame(StopCols, << <<Cell(0), Cell(0)>> >>),
     routes |-> IdFrame("route_id", <<1>>),
     trips |-> TripsFrame(<<"service_id", "route_id">>, {<<1, 1>>}),
     stop_times |-> StopTimesFrame,
     calendar |-> IdFrame("service_id", <<1>>),
     calendar_dates |-> None]

BaseFeed == MakeFeed(BaseTables)

Ids == 1..MaxId
IdSets == SUBSET Ids \ {{}}

\* Every shape of a defective required table
DefectShapes == {Absent, None, EmptyFrame, NoRowsTuple, Triple, List}

ShapeFeeds ==
    {MakeFeed([BaseTables EXCEPT !.agency = a, !.stops = s, !.routes = r,
                                 !.trips = t, !.stop_times = st]) :
        a \in DefectShapes \cup {BaseTables.agency},
        s \in DefectShapes \cup {BaseTables.stops},
        r \in DefectShapes \cup {BaseTables.routes},
        t \in DefectShapes \cup {BaseTables.trips},
        st \in DefectShapes \cup {BaseTables.stop_times}}

TripsOptions ==
    {TripsFrame(<<"service_id", "route_id">>, S) :
        S \in {T \in SUBSET (Ids \X Ids) : T # {} /\ Cardinality(T) <= MaxRows}}
    \cup {TripsFrame(<<"route_id">>, {<<1, 1>>}),
          TripsFrame(<<"service_id">>, {<<1, 1>>}),
          CountsTuple}

CalendarOptions ==
    {IdFrame("service_id", SetToSeq(S)) : S \in IdSets}
    \cup {Absent, None, EmptyFrame, IdFrame("date", <<1>>), CountsTuple, List}

RoutesOptions ==
    {IdFrame("route_id", SetToSeq(S)) : S \in IdSets}
    \cup {IdFrame("route_short_name", <<1>>), CountsTuple}

ServiceFeeds ==
    {MakeFeed([BaseTables EXCEPT !.trips = t, !.calendar = c, !.calendar_dates = d]) :
        t \in TripsOptions, c \in CalendarOptions, d \in CalendarOptions}

\* Feeds whose routes or stops are a (rows, columns) pair, which pass the
\* required-file check, and feeds with a stop out of range next to trips of
\* any kind
PairFeeds ==
    {MakeFeed([BaseTables EXCEPT !.trips = t, !.routes = r, !.stops = s, !.calendar = c]) :
        t \in TripsOptions, r \in {BaseTables.routes, CountsTuple},
        s \in {BaseTables.stops, CountsTuple,
               StopsFrame(StopCols, << <<Cell(91), Cell(0)>> >>)},
        c \in {BaseTables.calendar, None}}

RouteFeeds ==
    {MakeFeed([BaseTables EXCEPT !.trips = t, !.routes = r]) :
        t \in TripsOptions, r \in RoutesOptions}

\* Latitudes and longitudes around the limits, and missing ones
CoordPairs ==
    {<<Cell(lat), Cell(0)>> : lat \in {-91, -90, 90, 91}}
    \cup {<<Cell(0), Cell(lon)>> : lon \in {-181, -180, 180, 181}}
    \cup {<<NA, Cell(0)>>, <<Cell(0), NA>>, <<NA, Cell(181)>>, <<Cell(91), NA>>}

CoordSeqs == UNION {[1..n -> CoordPairs] : n \in 1..MaxRows}

StopsOptions ==
    {StopsFrame(StopCols, c) : c \in CoordSeqs}
    \cup {StopsFrame(<<"stop_id", "stop_lon">>, << <<Cell(91), Cell(0)>> >>),
          StopsFrame(<<"stop_id", "stop_lat">>, << <<Cell(0), Cell(181)>> >>),
          StopsFrame(<<"stop_lat", "stop_lon">>, << <<Cell(91), Cell(0)>> >>)}

StopFeeds == {MakeFeed([BaseTables EXCEPT !.stops = s]) : s \in StopsOptions}


\* The feeds of a sequence of calls on one validator
SeqFeeds ==
    {BaseFeed,
     MakeFeed([BaseTables EXCEPT !.agency = Absent]),
     MakeFeed([BaseTables EXCEPT !.trips = CountsTuple]),
     MakeFeed([BaseTables EXCEPT !.calendar = IdFrame("service_id", <<2>>),
                                 !.stops = CountsTuple]),
     MakeFeed([BaseTables EXCEPT !.stops = StopsFrame(StopCols, << <<Cell(91), Cell(0)>> >>)])}

(***************************************************************************)
(* Spec: one validate_feed call of a new validator, on any feed.           *)
(* SpecCalls: up to MaxCalls calls of one validator.                       *)
(***************************************************************************)
\* GTFSValidator.__init__
NewValidator ==
    /\ heap = << <<>>, <<>> >>
    /\ errors = 1
    /\ warnings = 2
    /\ returned = <<>>
    /\ completed = <<>>
    /\ raised = <<>>

\* No report generator exists
NoReport ==
    /\ report_feed = BaseFeed
    /\ validation_arg = None
    /\ validation_results = <<>>
    /\ report = [status |-> "none"]
    /\ exported = [format |-> "none"]

\* No real-time request is made
NoRealtime ==
    /\ upstream = <<>>
    /\ pc = "none"
    /\ vehicle_positions_data = Unbound
    /\ trip_updates_data = Unbound
    /\ service_alerts_data = Unbound
    /\ vehicle_positions = <<>>
    /\ trip_deviations = <<>>
    /\ response = [status |-> "none"]

\* The router is not started: last_validated_feed as the module defines it
NoSession ==
    /\ serving = FALSE
    /\ current_feed_zip = [kind |-> "absent"]
    /\ last_validated_feed = None
    /\ uploads = <<>>
    /\ answered = [request |-> "none"]

Init ==
    /\ NoReport
    /\ NoRealtime
    /\ NoSession
    /\ \/ feed \in ShapeFeeds
       \/ feed \in ServiceFeeds
       \/ feed \in PairFeeds
       \/ feed \in RouteFeeds
       \/ feed \in StopFeeds
    /\ NewValidator

ValidateFirst == returned = <<>> /\ ValidateFeed(feed) /\ UNCHANGED <<rvars, tvars, svars>>

ValidateAgain ==
    /\ returned # <<>>
    /\ Len(returned) < MaxCalls
    /\ \E f \in SeqFeeds : ValidateFeed(f)
    /\ UNCHANGED <<rvars, tvars, svars>>

Next == ValidateFirst

Spec == Init /\ [][Next]_vars

InitCalls == feed \in SeqFeeds /\ NewValidator /\ NoReport /\ NoRealtime /\ NoSession

NextCalls == ValidateFirst \/ ValidateAgain

SpecCalls == InitCalls /\ [][NextCalls]_vars

(***************************************************************************)
(* Python numbers.  A number is a fraction <<n, d>> in lowest terms with   *)
(* d > 0, and the arithmetic on it is exact.                               *)
(***************************************************************************)
RECURSIVE Gcd(_, _)
Gcd(a, b) == IF b = 0 THEN a ELSE Gcd(b, a % b)

Rat(n, d) ==
    LET g == Gcd(IF n < 0 THEN -n ELSE n, d)
    IN  <<n \div g, d \div g>>

Num(k) == <<k, 1>>
RSub(a, b) == Rat(a[1] * b[2] - b[1] * a[2], a[2] * b[2])
RMul(a, b) == Rat(a[1] * b[1], a[2] * b[2])
RLess(a, b) == a[1] * b[2] < b[1] * a[2]
RMax(a, b) == IF RLess(a, b) THEN b ELSE a
RMin(a, b) == IF RLess(b, a) THEN b ELSE a

\* dict.get(key, default)
Get(d, key, default) == IF key \in DOMAIN d THEN d[key] ELSE default

(***************************************************************************)
(* GTFSReportGenerator._calculate_completeness                             *)
(***************************************************************************)
\* other_files + service_files
files_to_check ==
    <<"agency", "stops", "routes", "trips", "stop_times", "calendar", "calendar_dates">>

\* df.count().sum(): the cells that are not missing
CountCells(df) ==
    Cardinality({rc \in (1..Len(df.rows)) \X (1..Len(df.cols)) : ~IsNA(df.rows[rc[1]][rc[2]])})

\* The body of the loop: completeness[file_attr]
FileCompleteness(f, file_attr) ==
    IF HasAttr(f, file_attr)
    THEN IF f[file_attr] # None /\ IsDataFrame(f[file_attr]) /\ ~Empty(f[file_attr])
         THEN RMul(Rat(CountCells(f[file_attr]),
                       Len(f[file_attr].rows) * Len(f[file_attr].cols)),
                   Num(100))
         ELSE Num(0)
    ELSE Num(0)

\* del completeness[key]
Del(d, key) == [k \in DOMAIN d \ {key} |-> d[k]]

\* A handling that only discards the calendar_dates key
CollapseCalendarDropsDates(c) == Del(c, "calendar_dates")

\* The special handling of calendar and calendar_dates
CollapseCalendar(c) ==
    IF "calendar" \in DOMAIN c /\ "calendar_dates" \in DOMAIN c
    THEN IF c["calendar"] = Num(0) /\ RLess(Num(0), c["calendar_dates"])
         THEN Del([c EXCEPT !["calendar"] = c["calendar_dates"]], "calendar_dates")
         ELSE IF c["calendar_dates"] = Num(0) /\ RLess(Num(0), c["calendar"])
         THEN Del(c, "calendar_dates")
         ELSE IF RLess(Num(0), c["calendar"]) /\ RLess(Num(0), c["calendar_dates"])
         THEN Del([c EXCEPT !["calendar"] = RMax(c["calendar"], c["calendar_dates"])],
                  "calendar_dates")
         ELSE IF c["calendar"] = Num(0) /\ c["calendar_dates"] = Num(0)
         THEN Del(c, "calendar_dates")
         ELSE c
    ELSE c

calculate_completeness(f) ==
    CollapseCalendar([file_attr \in Range(files_to_check) |-> FileCompleteness(f, file_attr)])

\* The keys of the completeness dict, in insertion order
CompletenessKeys(c) ==
    LET In(k) == k \in DOMAIN c IN SelectSeq(files_to_check, In)

(***************************************************************************)
(* GTFSReportGenerator._calculate_health_score                             *)
(***************************************************************************)
\* The deduction without the factor 0.5
DeductionWhole(comp_score) ==
    IF RLess(comp_score, Num(80)) THEN RSub(Num(80), comp_score) ELSE Num(0)

\* The deduction for one file of completeness comp_score
Deduction(comp_score) ==
    IF RLess(comp_score, Num(80)) THEN RMul(RSub(Num(80), comp_score), Rat(1, 2))
    ELSE Num(0)

\* score after the loop over completeness.items(), from key i on
RECURSIVE DeductFrom(_, _, _)
DeductFrom(c, i, score) ==
    IF i > Len(CompletenessKeys(c)) THEN score
    ELSE DeductFrom(c, i + 1, RSub(score, Deduction(c[CompletenessKeys(c)[i]])))

\* min(100, score) alone
ClampAbove(score) == RMin(Num(100), score)

\* max(0, min(100, score))
Clamp(score) == RMax(Num(0), RMin(Num(100), score))

calculate_health_score(f, vr) ==
    IF ~Get(vr, "is_valid", FALSE) THEN Num(0)
    ELSE Clamp(DeductFrom(calculate_completeness(f), 1,
                          Num(100 - Len(Get(vr, "errors", <<>>)) * 10
                                  - Len(Get(vr, "warnings", <<>>)) * 5)))

(***************************************************************************)
(* Message texts.  A message is kept as the f-string that makes it; Str is *)
(* the string it evaluates to.  Strings are sequences of characters.       *)
(***************************************************************************)
UpperCase == "ABCDEFGHIJKLMNOPQRSTUVWXYZ"
LowerCase == "abcdefghijklmnopqrstuvwxyz"

\* The first position of character ch in s, 0 when there is none
IndexOf(s, ch) ==
    IF \E i \in 1..Len(s) : SubSeq(s, i, i) = ch
    THEN CHOOSE i \in 1..Len(s) :
            SubSeq(s, i, i) = ch /\ \A j \in 1..(i - 1) : SubSeq(s, j, j) # ch
    ELSE 0

\* The lower-case letter of each upper-case letter
LowerOf ==
    [ch \in {SubSeq(UpperCase, i, i) : i \in 1..Len(UpperCase)} |->
        SubSeq(LowerCase, IndexOf(UpperCase, ch), IndexOf(UpperCase, ch))]

\* str.lower()
RECURSIVE Lower(_)
Lower(s) ==
    IF Len(s) = 0 THEN s
    ELSE IF Len(s) = 1 THEN (IF s \in DOMAIN LowerOf THEN LowerOf[s] ELSE s)
    ELSE Lower(SubSeq(s, 1, Len(s) \div 2)) \o Lower(SubSeq(s, Len(s) \div 2 + 1, Len(s)))

\* sub in s
Contains(s, sub) ==
    \E i \in 1..(Len(s) - Len(sub) + 1) : SubSeq(s, i, i + Len(sub) - 1) = sub

\* "".join(parts)
RECURSIVE Concat(_)
Concat(parts) == IF parts = <<>> THEN "" ELSE Head(parts) \o Concat(Tail(parts))

\* str() of a collection of identifiers, without the enclosing brackets
RECURSIVE Listing(_)
Listing(ids) ==
    IF ids = <<>> THEN ""
    ELSE IF Len(ids) = 1 THEN ToString(ids[1])
    ELSE ToString(ids[1]) \o ", " \o Listing(Tail(ids))

\* The value an f-string's replacement field evaluates to: a file name or
\* str(e) as it stands, a set of ids in braces, a list of ids in brackets
FieldValue(m) ==
    IF m.names # <<>> THEN Concat(m.names)
    ELSE IF Contains(m.fmt, "coordinates") THEN "[" \o Listing(m.ids) \o "]"
    ELSE "{" \o Listing(m.ids) \o "}"

\* The f-string evaluated: its one replacement field replaced by its value
Str(m) ==
    LET open == IndexOf(m.fmt, "{")
        close == IndexOf(m.fmt, "}")
    IN  IF open = 0 THEN m.fmt
        ELSE SubSeq(m.fmt, 1, open - 1) \o FieldValue(m) \o SubSeq(m.fmt, close + 1, Len(m.fmt))

(***************************************************************************)
(* GTFSReportGenerator._generate_summary                                   *)
(***************************************************************************)
\* error.get('message', '')
MessageOf(issue) == IF "message" \in DOMAIN issue THEN Str(issue.message) ELSE ""

\* "required" in error.get('message', '')
IsCriticalCaseSensitive(error) == Contains(MessageOf(error), "required")

\* "required" in error.get('message', '').lower()
IsCritical(error) == Contains(Lower(MessageOf(error)), "required")

critical_issues(vr) == SelectSeq(Get(vr, "errors", <<>>), IsCritical)

(***************************************************************************)
(* The values a report holds.  Py(t, v) is a value v of Python type t;     *)
(* dicts keep their items in insertion order.                              *)
(***************************************************************************)
Py(type, v) == [py |-> type, v |-> v]
PyDict(items) == [py |-> "dict", items |-> items]
PyList(items) == [py |-> "list", items |-> items]
Unknown == Py("str", "Unknown")

(***************************************************************************)
(* GTFSReportGenerator._get_feed_info                                      *)
(***************************************************************************)
feed_info_fields ==
    <<"feed_publisher_name", "feed_lang", "feed_version", "feed_start_date",
      "feed_end_date", "feed_contact_email", "feed_contact_url">>

feed_info_default(field) ==
    IF field \in {"feed_start_date", "feed_end_date"} THEN None ELSE Unknown

\* The field of the first row when the column exists and the cell is not
\* missing, the default otherwise
get_feed_info(f) ==
    PyDict([i \in 1..Len(feed_info_fields) |->
        LET field == feed_info_fields[i] IN
        <<field,
          IF /\ HasAttr(f, "feed_info") /\ f["feed_info"] # None
             /\ IsDataFrame(f["feed_info"]) /\ ~Empty(f["feed_info"])
             /\ HasColumn(f["feed_info"], field)
             /\ ~IsNA(Column(f["feed_info"], field)[1])
          THEN Py("str", Column(f["feed_info"], field)[1][1])
          ELSE feed_info_default(field)>>])

(***************************************************************************)
(* GTFSReportGenerator._calculate_service_coverage, _calculate_service_hours *)
(***************************************************************************)
weekdays ==
    <<"monday", "tuesday", "wednesday", "thursday", "friday", "saturday", "sunday">>

RECURSIVE SumCells(_)
SumCells(cells) ==
    IF cells = <<>> THEN 0
    ELSE (IF IsNA(Head(cells)) THEN 0 ELSE Head(cells)[1]) + SumCells(Tail(cells))

\* Series.sum(): a numpy integer for a column of integers, a numpy float
\* (a float) for a column with missing cells, which are skipped
SeriesSum(df, name) ==
    IF \E c \in Range(Column(df, name)) : IsNA(c)
    THEN Py("float", Num(SumCells(Column(df, name))))
    ELSE Py("int64", SumCells(Column(df, name)))

\* The weekday of a date; a missing date does not parse
WeekdayOf(date) == IF IsNA(date) THEN "" ELSE weekdays[(date[1] % 7) + 1]

\* The rows of calendar_dates that add service on the given weekday
AddedOn(df, day) ==
    IF HasColumn(df, "date") /\ HasColumn(df, "exception_type")
    THEN Cardinality({r \in 1..Len(df.rows) :
            /\ WeekdayOf(Column(df, "date")[r]) = day
            /\ Column(df, "exception_type")[r] = Cell(1)})
    ELSE 0

daily_service_counts(f) ==
    PyDict([i \in 1..Len(weekdays) |->
        <<weekdays[i],
          IF NonEmptyFrame(f, "calendar") = "true"
          THEN IF HasColumn(f["calendar"], weekdays[i])
               THEN SeriesSum(f["calendar"], weekdays[i]) ELSE Py("int", 0)
          ELSE IF NonEmptyFrame(f, "calendar_dates") = "true"
          THEN Py("int", AddedOn(f["calendar_dates"], weekdays[i]))
          ELSE Py("int", 0)>>])

\* len(feed.get_dates()), 0 when the call fails
total_distinct_service_days(f) ==
    IF HasAttr(f, "get_dates") THEN Py("int", f["get_dates"].dates) ELSE Py("int", 0)

\* The service hours as the difference of the two times, whichever is first
calculate_service_hours_same_day(f) ==
    LET st == f["stop_times"]
        Secs(name) == {c[1] : c \in {x \in Range(Column(st, name)) : ~IsNA(x)}}
        default == PyDict(<< <<"earliest_service", Py("str", "00:00:00")>>,
                             <<"latest_service", Py("str", "00:00:00")>>,
                             <<"service_hours", Py("int", 0)>> >>)
    IN  IF ~HasAttr(f, "stop_times") \/ st = None \/ Empty(st) THEN default
        ELSE IF \/ ~HasColumn(st, "departure_time") \/ ~HasColumn(st, "arrival_time")
                \/ Secs("departure_time") = {} \/ Secs("arrival_time") = {}
        THEN default
        ELSE LET earliest == CHOOSE x \in Secs("departure_time") :
                                 \A y \in Secs("departure_time") : x <= y
                 latest == CHOOSE x \in Secs("arrival_time") :
                                 \A y \in Secs("arrival_time") : x >= y
             IN  PyDict(<< <<"earliest_service", Py("str", earliest)>>,
                           <<"latest_service", Py("str", latest)>>,
                           <<"service_hours", Py("float", Rat(latest - earliest, 3600))>> >>)

\* Times are seconds past midnight; the first departure and the last arrival
\* of stop_times, the defaults when they cannot be had
calculate_service_hours(f) ==
    LET st == f["stop_times"]
        Secs(name) == {c[1] : c \in {x \in Range(Column(st, name)) : ~IsNA(x)}}
        default == PyDict(<< <<"earliest_service", Py("str", "00:00:00")>>,
                             <<"latest_service", Py("str", "00:00:00")>>,
                             <<"service_hours", Py("int", 0)>> >>)
    IN  IF ~HasAttr(f, "stop_times") \/ st = None \/ Empty(st) THEN default
        ELSE IF \/ ~HasColumn(st, "departure_time") \/ ~HasColumn(st, "arrival_time")
                \/ Secs("departure_time") = {} \/ Secs("arrival_time") = {}
        THEN default
        ELSE LET earliest == CHOOSE x \in Secs("departure_time") :
                                 \A y \in Secs("departure_time") : x <= y
                 latest == CHOOSE x \in Secs("arrival_time") :
                                 \A y \in Secs("arrival_time") : x >= y
                 total == IF latest < earliest THEN (24 * 3600 - earliest) + latest
                          ELSE latest - earliest
             IN  PyDict(<< <<"earliest_service", Py("str", earliest)>>,
                           <<"latest_service", Py("str", latest)>>,
                           <<"service_hours", Py("float", Rat(total, 3600))>> >>)

calculate_service_coverage(f) ==
    PyDict(<< <<"daily_service_counts", daily_service_counts(f)>>,
              <<"total_distinct_service_days", total_distinct_service_days(f)>>,
              <<"service_hours", calculate_service_hours(f)>> >>)

(***************************************************************************)
(* GTFSReportGenerator._extract_unique_route_colors, _calculate_metrics    *)
(***************************************************************************)
\* One dict per route_color in the order of the colors, the routes without a
\* color as "No Color Specified" after them: the number of its routes that
\* have a route_id, and the route_text_color of its first route, "000000"
\* when that one is missing or there is no such column
extract_unique_route_colors(f) ==
    IF /\ HasAttr(f, "routes") /\ f["routes"] # None /\ IsDataFrame(f["routes"])
       /\ ~Empty(f["routes"]) /\ HasColumn(f["routes"], "route_color")
       /\ HasColumn(f["routes"], "route_id")
    THEN LET df == f["routes"]
             color == Column(df, "route_color")
             colors == SetToSeq({c[1] : c \in {x \in Range(color) : ~IsNA(x)}})
             groups == [i \in 1..Len(colors) |-> Cell(colors[i])]
                           \o (IF \E x \in Range(color) : IsNA(x) THEN <<NA>> ELSE <<>>)
             Of(g) == {r \in 1..Len(df.rows) : color[r] = g}
             first(g) == CHOOSE r \in Of(g) : \A q \in Of(g) : r <= q
         IN  PyList([i \in 1..Len(groups) |->
                PyDict(<< <<"route_color",
                            IF IsNA(groups[i]) THEN Py("str", "No Color Specified")
                            ELSE Py("str", groups[i][1])>>,
                          <<"count",
                            Py("int", Cardinality({r \in Of(groups[i]) :
                                          ~IsNA(Column(df, "route_id")[r])}))>>,
                          <<"sample_text_color",
                            IF /\ HasColumn(df, "route_text_color")
                               /\ ~IsNA(Column(df, "route_text_color")[first(groups[i])])
                            THEN Py("str", Column(df, "route_text_color")[first(groups[i])][1])
                            ELSE Py("str", "000000")>> >>)])
    ELSE PyList(<<>>)

count_names ==
    <<"Agencies", "Routes", "Trips", "Stops", "Stations", "Entrances", "Generic nodes",
      "Boarding areas", "Pathways", "Levels", "Shapes", "Transfers", "Service Periods",
      "Fare Attributes">>

\* self.metrics after _calculate_metrics
calculate_metrics(f) ==
    PyDict(<< <<"Counts", PyDict([i \in 1..Len(count_names) |-> <<count_names[i], Py("int", 0)>>])>>,
              <<"Service Dates", calculate_service_coverage(f)>>,
              <<"Route Colors", extract_unique_route_colors(f)>> >>)

(***************************************************************************)
(* GTFSReportGenerator._generate_recommendations                           *)
(***************************************************************************)
optional_files ==
    <<"feed_info", "shapes", "frequencies", "transfers", "pathways", "levels",
      "fare_attributes">>

\* f"{comp_score:.1f}": the number of tenths nearest to comp_score, the even
\* one of two equally near
OneDecimal(c) ==
    LET q == (10 * c[1]) \div c[2]
        r == (10 * c[1]) % c[2]
    IN  IF 2 * r < c[2] THEN q
        ELSE IF 2 * r > c[2] THEN q + 1
        ELSE IF q % 2 = 0 THEN q ELSE q + 1

\* The first loop: metrics holds no "data_quality", so the score looked up is 0
AddRecommendations(f) ==
    LET Lacking(file) ==
            \/ ~HasAttr(f, file)
            \/ f[file] = None
            \/ (IsDataFrame(f[file]) /\ Empty(f[file]))
        Rec(file) == [fmt |-> "Consider adding {file}.txt or improving its completeness",
                      file |-> file]
        Recs == [i \in 1..Len(optional_files) |-> Rec(optional_files[i])]
        Wanted(rec) == Lacking(rec.file)
    IN  SelectSeq(Recs, Wanted)

\* A second loop that also takes the files of completeness 0
ImproveRecommendationsFromZero(f) ==
    LET c == calculate_completeness(f)
        keys == CompletenessKeys(c)
        Rec(file) ==
            [fmt |-> "Improve data completeness in {file}.txt (currently {comp_score:.1f}%)",
             file |-> file, tenths |-> OneDecimal(c[file])]
        Recs == [i \in 1..Len(keys) |-> Rec(keys[i])]
        Wanted(rec) == rec.file \notin Range(optional_files) /\ RLess(c[rec.file], Num(80))
    IN  SelectSeq(Recs, Wanted)

\* The second loop, over the completeness map
ImproveRecommendations(f) ==
    LET c == calculate_completeness(f)
        keys == CompletenessKeys(c)
        Rec(file) ==
            [fmt |-> "Improve data completeness in {file}.txt (currently {comp_score:.1f}%)",
             file |-> file, tenths |-> OneDecimal(c[file])]
        Recs == [i \in 1..Len(keys) |-> Rec(keys[i])]
        Wanted(rec) == /\ rec.file \notin Range(optional_files)
                       /\ RLess(c[rec.file], Num(80)) /\ RLess(Num(0), c[rec.file])
    IN  SelectSeq(Recs, Wanted)

generate_recommendations(f) == AddRecommendations(f) \o ImproveRecommendations(f)

(***************************************************************************)
(* GTFSReportGenerator.generate_report                                     *)
(***************************************************************************)
\* The result substituted for an absent one
NoResultsProvided ==
    [is_valid |-> FALSE,
     errors |-> <<[message |-> Message("No validation results provided", <<>>, <<>>)]>>,
     warnings |-> <<>>]

\* A substitute without the generic error
SubstituteNoError(v) ==
    IF v = None THEN [is_valid |-> FALSE, errors |-> <<>>, warnings |-> <<>>] ELSE v

Substitute(v) == IF v = None THEN NoResultsProvided ELSE v

\* str(e) of the exception _calculate_metrics raises, <<>> when it returns:
\* _calculate_service_coverage and _calculate_service_hours read .empty of
\* whatever the attribute holds, and the route colors are counted by route_id
MetricsException(f) ==
    IF NonEmptyFrame(f, "calendar") = "raise"
    THEN AttributeError(f["calendar"], "empty")
    ELSE IF NonEmptyFrame(f, "calendar") = "false" /\ NonEmptyFrame(f, "calendar_dates") = "raise"
    THEN AttributeError(f["calendar_dates"], "empty")
    ELSE IF HasAttr(f, "stop_times") /\ f["stop_times"] # None /\ ~IsDataFrame(f["stop_times"])
    THEN AttributeError(f["stop_times"], "empty")
    ELSE IF /\ HasAttr(f, "routes") /\ f["routes"] # None /\ IsDataFrame(f["routes"])
            /\ ~Empty(f["routes"])
            /\ HasColumn(f["routes"], "route_color") /\ ~HasColumn(f["routes"], "route_id")
    THEN <<"Column(s) ['route_id'] do not exist">>
    ELSE <<>>

\* dict.get on a dict kept as items: the value of the first item of that key
Item(d, key) == d.items[CHOOSE i \in 1..Len(d.items) : d.items[i][1] = key][2]

\* The key_metrics of the summary, read from self.metrics
key_metrics(f) ==
    LET metrics == calculate_metrics(f)
        dates == Item(metrics, "Service Dates")
    IN  PyDict(<< <<"total_stops", Item(Item(metrics, "Counts"), "Stops")>>,
                  <<"total_routes", Item(Item(metrics, "Counts"), "Routes")>>,
                  <<"total_trips", Item(Item(metrics, "Counts"), "Trips")>>,
                  <<"service_days", Item(dates, "total_distinct_service_days")>>,
                  <<"service_hours", Item(Item(dates, "service_hours"), "service_hours")>> >>)

\* The summary of the report
generate_summary(f, vr) ==
    [overall_status |-> IF Get(vr, "is_valid", FALSE) THEN "valid" ELSE "invalid",
     feed_health_score |-> calculate_health_score(f, vr),
     key_metrics |-> key_metrics(f),
     critical_issues |-> critical_issues(vr),
     recommendations |-> generate_recommendations(f)]

\* What generate_report(v) comes to on a generator of feed f
generate_report(f, v) ==
    IF MetricsException(f) # <<>>
    THEN [status |-> "raised", exc |-> MetricsException(f)]
    ELSE [status |-> "returned",
          value |-> [feed_info |-> get_feed_info(f),
                     metrics |-> calculate_metrics(f),
                     validation_results |-> Substitute(v),
                     summary |-> generate_summary(f, Substitute(v))]]

GenerateReport ==
    /\ report.status = "none"
    /\ validation_results' = Substitute(validation_arg)
    /\ report' = generate_report(report_feed, validation_arg)
    /\ UNCHANGED <<report_feed, validation_arg, exported, vvars, tvars, svars>>

(***************************************************************************)
(* GTFSReportGenerator.export_csv: the rows handed to the csv writer       *)
(***************************************************************************)
\* isinstance(value, dict)
IsDict(v) == "py" \in DOMAIN v /\ v.py = "dict"

RECURSIVE Flatten(_)
Flatten(seqs) == IF seqs = <<>> THEN <<>> ELSE Head(seqs) \o Flatten(Tail(seqs))

\* The rows of one category of report['metrics']
CategoryRows(category, metrics) ==
    IF IsDict(metrics)
    THEN Flatten([i \in 1..Len(metrics.items) |->
            LET key == metrics.items[i][1]
                value == metrics.items[i][2]
            IN  IF IsDict(value)
                THEN [j \in 1..Len(value.items) |->
                        <<category \o " - " \o key, value.items[j][1], value.items[j][2]>>]
                ELSE << <<category, key, value>> >>])
    ELSE <<>>

export_csv(r) ==
    LET errs == Get(r.validation_results, "errors", <<>>)
        warns == Get(r.validation_results, "warnings", <<>>)
        recs == r.summary.recommendations
    IN  << <<"Category", "Metric", "Value">> >>
        \o [i \in 1..Len(r.feed_info.items) |->
               <<"Feed Info", r.feed_info.items[i][1], r.feed_info.items[i][2]>>]
        \o Flatten([i \in 1..Len(r.metrics.items) |->
               CategoryRows(r.metrics.items[i][1], r.metrics.items[i][2])])
        \o << <<"Validation", "Overall Status", r.summary.overall_status>>,
              <<"Validation", "Health Score", r.summary.feed_health_score>> >>
        \o [i \in 1..Len(errs) |-> <<"Error", MessageOf(errs[i]), "">>]
        \o [i \in 1..Len(warns) |-> <<"Warning", MessageOf(warns[i]), "">>]
        \o [i \in 1..Len(recs) |-> <<"Recommendation", recs[i], "">>]

ExportCsv ==
    /\ report.status = "returned"
    /\ exported.format = "none"
    /\ exported' = [format |-> "csv", rows |-> export_csv(report.value)]
    /\ UNCHANGED <<report_feed, validation_arg, validation_results, report, vvars, tvars, svars>>

(***************************************************************************)
(* GTFSReportGenerator.export_json: json.dumps of the report, and          *)
(* json.loads of a text                                                    *)
(***************************************************************************)
\* The report as the dict json.dumps is given
IssueDict(issue) ==
    LET keys == SelectSeq(<<"type", "file", "message">>, LAMBDA k : k \in DOMAIN issue)
    IN  PyDict([i \in 1..Len(keys) |->
            <<keys[i], Py("str", IF keys[i] = "message" THEN Str(issue.message)
                                 ELSE issue[keys[i]])>>])

IssueList(issues) == PyList([i \in 1..Len(issues) |-> IssueDict(issues[i])])

ReportDict(r) ==
    LET vr == r.validation_results
        keys == SelectSeq(<<"is_valid", "errors", "warnings">>, LAMBDA k : k \in DOMAIN vr)
    IN  PyDict(<<
          <<"timestamp", Py("str", "now")>>,
          <<"feed_info", r.feed_info>>,
          <<"metrics", r.metrics>>,
          <<"validation_results",
            PyDict([i \in 1..Len(keys) |->
                <<keys[i], IF keys[i] = "is_valid" THEN Py("bool", vr.is_valid)
                           ELSE IssueList(vr[keys[i]])>>])>>,
          <<"summary",
            PyDict(<< <<"overall_status", Py("str", r.summary.overall_status)>>,
                      <<"feed_health_score", Py("float", r.summary.feed_health_score)>>,
                      <<"key_metrics", r.summary.key_metrics>>,
                      <<"critical_issues", IssueList(r.summary.critical_issues)>>,
                      <<"recommendations",
                        PyList([i \in 1..Len(r.summary.recommendations) |->
                                   Py("str", r.summary.recommendations[i])])>> >>)>> >>)

\* The type name of the first value json.dumps cannot encode, "" if none
RECURSIVE Unencodable(_)
Unencodable(v) ==
    IF v = None THEN ""
    ELSE IF v.py \in {"dict", "list"}
    THEN LET bad == SelectSeq(
                 [i \in 1..Len(v.items) |->
                     Unencodable(IF v.py = "dict" THEN v.items[i][2] ELSE v.items[i])],
                 LAMBDA t : t # "")
         IN  IF bad = <<>> THEN "" ELSE bad[1]
    ELSE IF v.py \in {"str", "int", "float", "bool"} THEN ""
    ELSE v.py

\* The JSON text of an encodable value, as the tree of its tokens
RECURSIVE JsonOf(_)
JsonOf(v) ==
    IF v = None THEN [json |-> "null"]
    ELSE IF v.py = "dict"
    THEN [json |-> "object",
          members |-> [i \in 1..Len(v.items) |-> <<v.items[i][1], JsonOf(v.items[i][2])>>]]
    ELSE IF v.py = "list"
    THEN [json |-> "array", items |-> [i \in 1..Len(v.items) |-> JsonOf(v.items[i])]]
    ELSE IF v.py = "str" THEN [json |-> "string", v |-> v.v]
    ELSE IF v.py = "bool" THEN [json |-> IF v.v THEN "true" ELSE "false"]
    ELSE [json |-> "number", literal |-> v.py, v |-> v.v]

\* json.loads
RECURSIVE json_loads(_)
json_loads(j) ==
    CASE j.json = "null" -> None
      [] j.json = "object" ->
            PyDict([i \in 1..Len(j.members) |-> <<j.members[i][1], json_loads(j.members[i][2])>>])
      [] j.json = "array" -> PyList([i \in 1..Len(j.items) |-> json_loads(j.items[i])])
      [] j.json = "string" -> Py("str", j.v)
      [] j.json = "true" -> Py("bool", TRUE)
      [] j.json = "false" -> Py("bool", FALSE)
      [] j.json = "number" -> Py(j.literal, j.v)

\* json.dumps(report, indent=2): the text, or the TypeError
export_json(r) ==
    IF Unencodable(ReportDict(r)) = ""
    THEN [format |-> "json", status |-> "returned", text |-> JsonOf(ReportDict(r))]
    ELSE [format |-> "json", status |-> "raised",
          exc |-> <<"Object of type ", Unencodable(ReportDict(r)), " is not JSON serializable">>]

ExportJson ==
    /\ report.status = "returned"
    /\ exported.format = "none"
    /\ exported' = export_json(report.value)
    /\ UNCHANGED <<report_feed, validation_arg, validation_results, report, vvars, tvars, svars>>

(***************************************************************************)
(* The feeds and validation results the report generator is run on.        *)
(***************************************************************************)
\* A table of one row and FrameCols columns, the first n cells present
Frame(n) ==
    DataFrame([i \in 1..FrameCols |-> ToString(i)],
              << [i \in 1..FrameCols |-> IF i <= n THEN Cell(1) ELSE NA] >>)

FullFrame == Frame(FrameCols)

\* A table of one row of three cells, two of them present
TwoOfThree == DataFrame(<<"1", "2", "3">>, << <<Cell(1), Cell(1), NA>> >>)

CompletenessOptions ==
    {Absent, None, List, EmptyFrame, TwoOfThree} \cup {Frame(n) : n \in 0..FrameCols}

\* Feeds in which up to two tables are not full
ReportFeeds ==
    {MakeFeed([t \in Range(files_to_check) |->
                  IF t = a THEN x ELSE IF t = b THEN y ELSE FullFrame]) :
        a \in Range(files_to_check), b \in Range(files_to_check),
        x \in CompletenessOptions, y \in CompletenessOptions}

\* Feeds of full required tables in which up to two optional tables are
\* present: without rows, with rows of missing cells only, partly or wholly
\* filled
OptionalFeeds ==
    {MakeFeed([t \in Range(files_to_check) \cup Range(optional_files) |->
                  IF t = a THEN x ELSE IF t = b THEN y
                  ELSE IF t \in Range(files_to_check) THEN FullFrame ELSE Absent]) :
        a \in Range(optional_files), b \in Range(optional_files),
        x \in {Absent, None, EmptyFrame} \cup {Frame(n) : n \in 0..FrameCols},
        y \in {Absent, None, EmptyFrame, Frame(0), FullFrame}}

ErrorList(n) ==
    [i \in 1..n |-> IF i % 2 = 1
                    THEN FileIssue("missing_file", "agency.txt", "Required file {file} is missing")
                    ELSE ServiceIdIssue({i})]

WarningList(n) == [i \in 1..n |-> [type |-> "warning", message |-> Message("warning", <<>>, <<i>>)]]

ValidationDicts ==
    {[is_valid |-> b, errors |-> ErrorList(e), warnings |-> WarningList(w)] :
        b \in BOOLEAN, e \in 0..MaxErrors, w \in 0..MaxWarnings}
    \cup {[errors |-> ErrorList(e), warnings |-> WarningList(w)] :
        e \in 0..MaxErrors, w \in 0..MaxWarnings}

(***************************************************************************)
(* SpecReport: one generate_report call of a new report generator.         *)
(***************************************************************************)
\* GTFSReportGenerator.__init__
InitReport ==
    /\ feed = BaseFeed
    /\ NewValidator
    /\ \/ report_feed \in ReportFeeds /\ validation_arg \in {None} \cup ValidationDicts
       \/ report_feed \in OptionalFeeds /\ validation_arg = None
    /\ validation_results = <<>>
    /\ report = [status |-> "none"]
    /\ exported = [format |-> "none"]
    /\ NoRealtime
    /\ NoSession

NextReport == GenerateReport

SpecReport == InitReport /\ [][NextReport]_vars

(***************************************************************************)
(* SpecSummary: generate_report on the result validate_feed returned for   *)
(* the same feed, as validate_gtfs calls it, and on results a caller made. *)
(***************************************************************************)
\* validator = GTFSValidator(); validation_results = validator.validate_feed(feed)
ValidatedResult(f) ==
    LET e == FreshList(<<>>, 0)
        w == FreshList(e.heap, 0)
        Dict(ret) == [is_valid |-> ret.result.is_valid,
                      errors |-> ret.heap[ret.result.errors],
                      warnings |-> ret.heap[ret.result.warnings]]
        Finish(out) ==
            Dict(IF out.raised = <<>>
                 THEN ReturnResult([w.heap EXCEPT ![e.ref] = out.errors], e.ref, w.ref)
                 ELSE ExceptResult([w.heap EXCEPT ![e.ref] = out.errors], e.ref, w.ref,
                                   out.raised))
    IN  Finish(validate_checks(f, w.heap[e.ref]))

\* Issues of other makers: the word in capitals, inside another word, in the
\* replacement field only, not at all, and no message
CallerIssues ==
    {[type |-> "custom", message |-> Message("stop_name is REQUIRED", <<>>, <<>>)],
     [type |-> "custom", message |-> Message("Unrequired column {file}", <<"zone_id">>, <<>>)],
     [type |-> "custom", message |-> Message("Unknown file {file}", <<"Required.txt">>, <<>>)],
     [type |-> "custom", message |-> Message("Require a feed_info.txt", <<>>, <<>>)],
     [type |-> "custom"],
     FileIssue("missing_file", "agency.txt", "Required file {file} is missing"),
     ServiceIdIssue({1})}

RECURSIVE SeqsUpTo(_, _)
SeqsUpTo(S, n) ==
    IF n = 0 THEN {<<>>}
    ELSE SeqsUpTo(S, n - 1) \cup {Append(q, x) : q \in {r \in SeqsUpTo(S, n - 1) : Len(r) = n - 1}, x \in S}

CallerDicts ==
    {[is_valid |-> b, errors |-> e, warnings |-> WarningList(w)] :
        b \in BOOLEAN, e \in SeqsUpTo(CallerIssues, MaxErrors), w \in 0..MaxWarnings}
    \cup {[errors |-> e, warnings |-> <<>>] : e \in SeqsUpTo(CallerIssues, MaxErrors)}

\* The feeds in which at most two required tables are defective
DefectFeeds ==
    {f \in ShapeFeeds :
        Cardinality({a \in {"agency", "stops", "routes", "trips", "stop_times"} :
                        ~HasAttr(f, a) \/ f[a] # BaseFeed[a]}) <= 2}

FullFeed == MakeFeed([t \in Range(files_to_check) |-> FullFrame])

InitSummary ==
    /\ feed = BaseFeed
    /\ NewValidator
    /\ \/ report_feed = FullFeed /\ validation_arg \in CallerDicts
       \/ /\ \/ report_feed \in DefectFeeds
             \/ report_feed \in ServiceFeeds
             \/ report_feed \in StopFeeds
          /\ validation_arg = ValidatedResult(report_feed)
    /\ validation_results = <<>>
    /\ report = [status |-> "none"]
    /\ exported = [format |-> "none"]
    /\ NoRealtime
    /\ NoSession

SpecSummary == InitSummary /\ [][NextReport]_vars

(***************************************************************************)
(* SpecExport: a report is generated and then exported, as CSV or as JSON. *)
(***************************************************************************)
\* The feeds exported reports are made of.  calendar: no weekday column, whole
\* weekday columns, cells missing; calendar_dates: added and removed service,
\* a missing date; routes: two of one color, one without a color, missing
\* text colors; feed_info; stop_times with times; get_dates
ExportFeeds ==
    LET WeekCalendars ==
            {IdFrame("service_id", <<1>>),
             DataFrame(<<"service_id", "monday", "sunday">>,
                       << <<Cell(1), Cell(1), Cell(0)>>, <<Cell(2), Cell(1), Cell(1)>> >>),
             DataFrame(<<"service_id", "monday", "sunday">>,
                       << <<Cell(1), Cell(1), NA>>, <<Cell(2), Cell(1), Cell(1)>> >>)}
        DateCalendars ==
            {IdFrame("service_id", <<1>>),
             DataFrame(<<"service_id", "date", "exception_type">>,
                       << <<Cell(1), Cell(7), Cell(1)>>, <<Cell(1), Cell(8), Cell(2)>>,
                          <<Cell(1), NA, Cell(1)>>, <<Cell(2), Cell(14), Cell(1)>> >>)}
        ColoredRoutes ==
            {DataFrame(<<"route_id", "route_color", "route_text_color">>,
                       << <<Cell(1), Cell(2), NA>>, <<Cell(2), Cell(2), Cell(5)>>,
                          <<Cell(3), NA, Cell(6)>>, <<Cell(4), Cell(1), Cell(7)>> >>),
             DataFrame(<<"route_id", "route_color">>, << <<Cell(1), Cell(2)>>, <<Cell(2), NA>> >>)}
        FeedInfos ==
            {DataFrame(<<"feed_publisher_name", "feed_version", "feed_start_date">>,
                       << <<Cell(1), NA, Cell(2)>> >>)}
        TimedStopTimes ==
            {DataFrame(<<"trip_id", "arrival_time", "departure_time">>,
                       << <<Cell(1), Cell(3600), Cell(3660)>>, <<Cell(1), Cell(7200), NA>> >>)}
    IN  {MakeFeed([BaseTables EXCEPT !.calendar = c, !.calendar_dates = d, !.routes = r,
                                     !.stop_times = st]
                  @@ [feed_info |-> fi, shapes |-> sh, get_dates |-> gd]) :
            c \in {Absent, None, EmptyFrame} \cup WeekCalendars,
            d \in {Absent} \cup DateCalendars,
            r \in {BaseTables.routes, Absent} \cup ColoredRoutes,
            st \in {BaseTables.stop_times, Absent} \cup TimedStopTimes,
            fi \in {Absent, None} \cup FeedInfos,
            sh \in {Absent, EmptyFrame},
            gd \in {Absent} \cup {[kind |-> "method", dates |-> n] : n \in 0..MaxId}}

\* Times of a schedule in seconds past midnight, 90000 being 25:00:00 of a
\* service day that runs past midnight
ScheduleTimes == {0, 100, 3600, 86399, 90000}

\* The feeds whose stop_times holds one stop with an arrival and a departure
\* out of ScheduleTimes, or is absent, None or without rows
ServiceHourFeeds ==
    {MakeFeed([BaseTables EXCEPT !.stop_times = st]) :
        st \in {Absent, None, EmptyFrame}
               \cup {DataFrame(<<"trip_id", "arrival_time", "departure_time">>,
                               << <<Cell(1), Cell(a), Cell(d)>> >>) :
                         a \in ScheduleTimes, d \in ScheduleTimes}}

\* A result of another maker: an error without a message, and a warning
CallerResult ==
    [is_valid |-> TRUE,
     errors |-> <<ServiceIdIssue({1}), [type |-> "custom"]>>,
     warnings |-> WarningList(1)]

InitExport ==
    /\ feed = BaseFeed
    /\ NewValidator
    /\ report_feed \in ExportFeeds \cup ServiceHourFeeds
    /\ validation_arg \in {None, CallerResult, ValidatedResult(report_feed)}
    /\ validation_results = <<>>
    /\ report = [status |-> "none"]
    /\ exported = [format |-> "none"]
    /\ NoRealtime
    /\ NoSession

NextExport == GenerateReport \/ ExportCsv \/ ExportJson

SpecExport == InitExport /\ [][NextExport]_vars

(***************************************************************************)
(* Real-time documents (realtime/processor.py, api/validation.py).  A JSON *)
(* object is a function from its keys to their values, a JSON array is a   *)
(* sequence, null is None, a number n is Number(n) and a string s is       *)
(* String(s).  The empty object is <<>>.                                   *)
(***************************************************************************)
Number(n) == [number |-> n]
String(s) == [string |-> s]

\* fetch_and_parse_realtime_feed: the parsed document, None when the request
\* failed or its text is not JSON
fetch_and_parse_realtime_feed(answer) ==
    IF answer.outcome = "json" THEN answer.document ELSE None

\* value is a dict: value.get(...) does not raise
IsObject(value) == DOMAIN value \cap {"kind", "number", "string"} = {}

\* An if that never takes its branch
IsNoneNever(data) == FALSE

\* data is None
IsNone(data) == data = None

HTTPException(status_code, detail) ==
    [status |-> "error", status_code |-> status_code, detail |-> detail]

\* except Exception as e: raise HTTPException(500, f"Internal Server Error: {e}")
Raise(e) ==
    /\ pc' = "raised"
    /\ response' = HTTPException(500, "Internal Server Error: " \o e)

\* str() of the HTTPException raised when a fetch returned None
FetchFailed(what) == "500: Failed to fetch or parse real-time " \o what \o " data"

(***************************************************************************)
(* get_realtime_vehicles: the vehicle positions                            *)
(***************************************************************************)
\* The dict made of the entity's vehicle
VehicleOf(entity) ==
    LET vehicle == entity.vehicle
        position == Get(vehicle, "position", <<>>)
        trip_info == Get(vehicle, "trip", <<>>)
    IN  [id |-> Get(Get(vehicle, "vehicle", <<>>), "id", None),
         label |-> Get(Get(vehicle, "vehicle", <<>>), "label", None),
         position |-> [latitude |-> Get(position, "latitude", None),
                       longitude |-> Get(position, "longitude", None),
                       bearing |-> Get(position, "bearing", None),
                       speed |-> Get(position, "speed", None)],
         currentStatus |-> Get(vehicle, "currentStatus", None),
         stopId |-> Get(vehicle, "stopId", None),
         congestionLevel |-> Get(vehicle, "congestionLevel", None),
         occupancyStatus |-> Get(vehicle, "occupancyStatus", None),
         trip |-> [tripId |-> Get(trip_info, "tripId", None),
                   routeId |-> Get(trip_info, "routeId", None),
                   directionId |-> Get(trip_info, "directionId", None)],
         scheduleDeviation |-> None]

\* A .get of lines 200-214 is called on a value that is no dict
VehicleRaises(entity) ==
    \/ ~IsObject(entity.vehicle)
    \/ \E key \in {"vehicle", "position", "trip"} : ~IsObject(Get(entity.vehicle, key, <<>>))

\* A test of the position only
HasPosition(v) == v.position.latitude # None /\ v.position.longitude # None

\* latitude is not None and longitude is not None and trip_id is not None
HasPositionAndTrip(v) ==
    v.position.latitude # None /\ v.position.longitude # None /\ v.trip.tripId # None

\* 'vehicle' in entity
IsVehicleEntity(entity) == "vehicle" \in DOMAIN entity

\* The loop over vehicle_positions_data['entity']: the list it leaves, or
\* the exception it raises
ExtractVehiclePositions(data) ==
    LET entities == IF "entity" \in DOMAIN data
                    THEN SelectSeq(data.entity, IsVehicleEntity) ELSE <<>>
    IN  IF \E i \in 1..Len(entities) : VehicleRaises(entities[i])
        THEN [raised |-> "'NoneType' object has no attribute 'get'", vehicles |-> <<>>]
        ELSE [raised |-> "",
              vehicles |-> SelectSeq([i \in 1..Len(entities) |-> VehicleOf(entities[i])],
                                     HasPositionAndTrip)]

(***************************************************************************)
(* get_realtime_vehicles: the schedule deviations                          *)
(***************************************************************************)
Digits == "0123456789"

\* The number a string of decimal digits denotes
RECURSIVE Decimal(_)
Decimal(s) ==
    IF Len(s) = 0 THEN 0
    ELSE 10 * Decimal(SubSeq(s, 1, Len(s) - 1))
         + IndexOf(Digits, SubSeq(s, Len(s), Len(s))) - 1

\* int(value) of a null, an integer or a string: <<n>> when it returns n,
\* <<>> when it raises ValueError or TypeError
int(value) ==
    IF value = None THEN <<>>
    ELSE IF "number" \in DOMAIN value THEN <<value.number>>
    ELSE LET s == value.string
             negative == Len(s) > 0 /\ SubSeq(s, 1, 1) = "-"
             signed == Len(s) > 0 /\ SubSeq(s, 1, 1) \in {"-", "+"}
             digits == IF signed THEN SubSeq(s, 2, Len(s)) ELSE s
         IN  IF Len(digits) > 0
                /\ \A i \in 1..Len(digits) : IndexOf(Digits, SubSeq(digits, i, i)) > 0
             THEN <<IF negative THEN -Decimal(digits) ELSE Decimal(digits)>>
             ELSE <<>>

\* A chain that looks at the arrival first
ReportedArrivalFirst(stop_time_update) ==
    IF "arrival" \in DOMAIN stop_time_update /\ "delay" \in DOMAIN stop_time_update.arrival
    THEN <<stop_time_update.arrival.delay>>
    ELSE IF "scheduleDeviation" \in DOMAIN stop_time_update
    THEN <<stop_time_update.scheduleDeviation>>
    ELSE IF "departure" \in DOMAIN stop_time_update
            /\ "delay" \in DOMAIN stop_time_update.departure
    THEN <<stop_time_update.departure.delay>>
    ELSE <<>>

\* A chain that goes on to the arrival and the departure of an entry whose
\* scheduleDeviation int() does not convert
ReportedWithFallback(stop_time_update) ==
    IF "scheduleDeviation" \in DOMAIN stop_time_update
       /\ int(stop_time_update.scheduleDeviation) # <<>>
    THEN <<stop_time_update.scheduleDeviation>>
    ELSE IF "arrival" \in DOMAIN stop_time_update /\ "delay" \in DOMAIN stop_time_update.arrival
    THEN <<stop_time_update.arrival.delay>>
    ELSE IF "departure" \in DOMAIN stop_time_update
            /\ "delay" \in DOMAIN stop_time_update.departure
    THEN <<stop_time_update.departure.delay>>
    ELSE <<>>

\* The value the if/elif chain hands to int(): <<v>>, or <<>> when no branch
\* is taken
Reported(stop_time_update) ==
    IF "scheduleDeviation" \in DOMAIN stop_time_update
    THEN <<stop_time_update.scheduleDeviation>>
    ELSE IF "arrival" \in DOMAIN stop_time_update /\ "delay" \in DOMAIN stop_time_update.arrival
    THEN <<stop_time_update.arrival.delay>>
    ELSE IF "departure" \in DOMAIN stop_time_update
            /\ "delay" \in DOMAIN stop_time_update.departure
    THEN <<stop_time_update.departure.delay>>
    ELSE <<>>

\* sorted(updates, key=lambda x: x.get('stopSequence', 0)); the sort is stable
SortedByStopSequence(updates) ==
    LET key(i) == Get(updates[i], "stopSequence", Number(0)).number
        rank(i) == Cardinality({j \in 1..Len(updates) :
                                    key(j) < key(i) \/ (key(j) = key(i) /\ j < i)}) + 1
    IN  [r \in 1..Len(updates) |-> updates[CHOOSE i \in 1..Len(updates) : rank(i) = r]]

\* The deviation of a trip update: <<d>>, the first value of the reversed
\* sorted stop-time updates that int() converts, or <<>> (None)
Deviation(trip_update) ==
    IF "stopTimeUpdate" \notin DOMAIN trip_update THEN <<>>
    ELSE LET stop_time_updates == SortedByStopSequence(trip_update.stopTimeUpdate)
             Converted(i) == IF Reported(stop_time_updates[i]) = <<>> THEN <<>>
                             ELSE int(Reported(stop_time_updates[i])[1])
             found == {i \in 1..Len(stop_time_updates) : Converted(i) # <<>>}
         IN  IF found = {} THEN <<>>
             ELSE Converted(CHOOSE i \in found : \A j \in found : j <= i)

\* d[k] = v
Put(d, k, v) == [x \in DOMAIN d \cup {k} |-> IF x = k THEN v ELSE d[x]]

\* The loop over trip_updates_data['entity'], from the dict deviations on
RECURSIVE IndexDeviations(_, _)
IndexDeviations(entities, deviations) ==
    IF entities = <<>> THEN deviations
    ELSE LET entity == Head(entities)
             trip_id == Get(Get(entity.tripUpdate, "trip", <<>>), "tripId", None)
             deviation == Deviation(entity.tripUpdate)
         IN  IndexDeviations(Tail(entities),
                IF "tripUpdate" \in DOMAIN entity /\ trip_id # None /\ deviation # <<>>
                THEN Put(deviations, trip_id, deviation[1])
                ELSE deviations)

ExtractTripDeviations(data) ==
    IF "entity" \in DOMAIN data THEN IndexDeviations(data.entity, <<>>) ELSE <<>>

\* `'delay' in stop_time_update[key]` is evaluated on a null: the entry has no
\* scheduleDeviation and the chain comes to an arrival, or a departure, that
\* is null
ChainRaises(stop_time_update) ==
    /\ "scheduleDeviation" \notin DOMAIN stop_time_update
    /\ \/ "arrival" \in DOMAIN stop_time_update /\ stop_time_update.arrival = None
       \/ /\ ~("arrival" \in DOMAIN stop_time_update
               /\ "delay" \in DOMAIN stop_time_update.arrival)
          /\ "departure" \in DOMAIN stop_time_update
          /\ stop_time_update.departure = None

\* The str(e) of the exception the body of the loop raises on one trip-update
\* entity, "" when it raises none: the .get on a null trip, or the chain on
\* an entry the reversed scan comes to before a value is converted
TripUpdateRaises(entity) ==
    LET trip_update == entity.tripUpdate
        Scanned(s) ==
            \E i \in 1..Len(s) :
                /\ ChainRaises(s[i])
                /\ \A j \in (i + 1)..Len(s) :
                        \/ ChainRaises(s[j])
                        \/ Reported(s[j]) = <<>>
                        \/ int(Reported(s[j])[1]) = <<>>
    IN  IF ~IsObject(Get(trip_update, "trip", <<>>))
        THEN "'NoneType' object has no attribute 'get'"
        ELSE IF "stopTimeUpdate" \in DOMAIN trip_update
                /\ Scanned(SortedByStopSequence(trip_update.stopTimeUpdate))
        THEN "argument of type 'NoneType' is not iterable"
        ELSE ""

\* The exception of the first trip-update entity that raises one
RECURSIVE TripUpdatesRaise(_)
TripUpdatesRaise(entities) ==
    IF entities = <<>> THEN ""
    ELSE IF "tripUpdate" \in DOMAIN Head(entities) /\ TripUpdateRaises(Head(entities)) # ""
    THEN TripUpdateRaises(Head(entities))
    ELSE TripUpdatesRaise(Tail(entities))

(***************************************************************************)
(* get_realtime_vehicles: the merge and the metrics                        *)
(***************************************************************************)
ON_TIME_EARLY_THRESHOLD == -60
ON_TIME_LATE_THRESHOLD == 300

\* A window without its limits
IsOnTimeStrict(deviation) ==
    deviation > ON_TIME_EARLY_THRESHOLD /\ deviation < ON_TIME_LATE_THRESHOLD

IsOnTime(deviation) ==
    deviation >= ON_TIME_EARLY_THRESHOLD /\ deviation <= ON_TIME_LATE_THRESHOLD

IsEarly(deviation) == deviation < ON_TIME_EARLY_THRESHOLD
IsLate(deviation) == deviation > ON_TIME_LATE_THRESHOLD

\* The vehicle after `vehicle['scheduleDeviation'] = deviation` when its trip
\* id is in deviations
Attach(vehicle, deviations) ==
    IF vehicle.trip.tripId \in DOMAIN deviations
    THEN [vehicle EXCEPT !.scheduleDeviation = Number(deviations[vehicle.trip.tripId])]
    ELSE vehicle

\* A merge that appends inside the if
MergeDeviatedOnly(vehicles, deviations) ==
    LET Deviated(v) == v.trip.tripId \in DOMAIN deviations
    IN  [i \in 1..Len(SelectSeq(vehicles, Deviated)) |->
            Attach(SelectSeq(vehicles, Deviated)[i], deviations)]

\* merged_vehicles
Merge(vehicles, deviations) ==
    [i \in 1..Len(vehicles) |-> Attach(vehicles[i], deviations)]

\* The deviations of vehicles_with_deviation_list, in its order
DeviationsOf(merged, deviations) ==
    LET Deviated(v) == v.trip.tripId \in DOMAIN deviations
    IN  [i \in 1..Len(SelectSeq(merged, Deviated)) |->
            SelectSeq(merged, Deviated)[i].scheduleDeviation.number]

\* sum() of a list of integers
RECURSIVE Total(_)
Total(s) == IF s = <<>> THEN 0 ELSE Head(s) + Total(Tail(s))

\* round(x, 2) of a fraction x: the nearest multiple of 1/100, the even one
\* of two that are equally near
Round2(x) ==
    LET q == (100 * x[1]) \div x[2]
        r == (100 * x[1]) % x[2]
    IN  IF 2 * r < x[2] THEN Rat(q, 100)
        ELSE IF 2 * r > x[2] THEN Rat(q + 1, 100)
        ELSE IF q % 2 = 0 THEN Rat(q, 100)
        ELSE Rat(q + 1, 100)

\* The counters of the merge loop: a vehicle is counted by the first branch
\* of the if/elif chain it passes
Counted(d) ==
    [on_time |-> Len(SelectSeq(d, IsOnTime)),
     early |-> LET Test(x) == ~IsOnTime(x) /\ IsEarly(x) IN Len(SelectSeq(d, Test)),
     late |-> LET Test(x) == ~IsOnTime(x) /\ ~IsEarly(x) /\ IsLate(x)
              IN  Len(SelectSeq(d, Test))]

\* The early deviations as they are, signed
Signed(n) == n

\* abs(dev)
Abs(n) == IF n < 0 THEN -n ELSE n

\* realtime_metrics, from the deviations d of vehicles_with_deviation_list
RealtimeMetrics(d) ==
    LET counted == Counted(d)
        early_deviations == SelectSeq(d, IsEarly)
        late_deviations == SelectSeq(d, IsLate)
    IN  [total_vehicles_reporting_deviation |-> Len(d),
         on_time_vehicles |-> counted.on_time,
         on_time_percentage |->
            Round2(IF Len(d) > 0 THEN RMul(Rat(counted.on_time, Len(d)), Num(100))
                    ELSE Num(0)),
         early_vehicles_count |-> counted.early,
         late_vehicles_count |-> counted.late,
         average_early_deviation_seconds |->
            Round2(IF early_deviations # <<>>
                    THEN Rat(Total([i \in 1..Len(early_deviations) |-> Abs(early_deviations[i])]),
                             Len(early_deviations))
                    ELSE Num(0)),
         average_late_deviation_seconds |->
            Round2(IF late_deviations # <<>>
                    THEN Rat(Total(late_deviations), Len(late_deviations))
                    ELSE Num(0)),
         average_overall_deviation_seconds |->
            Round2(IF Len(d) > 0 THEN Rat(Total(d), Len(d)) ELSE Num(0))]

(***************************************************************************)
(* get_realtime_vehicles: the service alerts                               *)
(***************************************************************************)
\* alert.get(key, {}).get('translation', [{}])[0].get('text') if alert.get(key)
\* else None
TranslatedText(alert, key) ==
    IF key \in DOMAIN alert /\ DOMAIN alert[key] # {} /\ alert[key] # None
    THEN Get(Get(alert[key], "translation", << <<>> >>)[1], "text", None)
    ELSE None

\* The [0] of an empty translation list
AlertRaises(entity) ==
    \E key \in {"url", "headerText", "descriptionText"} :
        /\ key \in DOMAIN entity.alert
        /\ DOMAIN entity.alert[key] # {}
        /\ entity.alert[key] # None
        /\ Get(entity.alert[key], "translation", << <<>> >>) = <<>>

AlertInfo(entity) ==
    [id |-> Get(entity, "id", None),
     cause |-> Get(entity.alert, "cause", None),
     effect |-> Get(entity.alert, "effect", None),
     url |-> TranslatedText(entity.alert, "url"),
     headerText |-> TranslatedText(entity.alert, "headerText"),
     descriptionText |-> TranslatedText(entity.alert, "descriptionText"),
     informedEntities |-> Get(entity.alert, "informedEntity", <<>>)]

IsAlertEntity(entity) == "alert" \in DOMAIN entity

\* The loop over service_alerts_data['entity']
ExtractAlerts(data) ==
    LET entities == IF DOMAIN data # {} /\ "entity" \in DOMAIN data
                    THEN SelectSeq(data.entity, IsAlertEntity) ELSE <<>>
    IN  IF \E i \in 1..Len(entities) : AlertRaises(entities[i])
        THEN [raised |-> "list index out of range", alerts |-> <<>>]
        ELSE [raised |-> "", alerts |-> [i \in 1..Len(entities) |-> AlertInfo(entities[i])]]

(***************************************************************************)
(* get_realtime_vehicles, step by step                                     *)
(***************************************************************************)
FetchVehiclePositions ==
    /\ pc = "start"
    /\ vehicle_positions_data' = fetch_and_parse_realtime_feed(upstream.vehicle_positions)
    /\ IF IsNone(vehicle_positions_data')
       THEN Raise(FetchFailed("vehicle position"))
       ELSE pc' = "vehicle_positions_fetched" /\ UNCHANGED response
    /\ UNCHANGED <<upstream, trip_updates_data, service_alerts_data, vehicle_positions,
                   trip_deviations, vvars, rvars, svars>>

FetchTripUpdates ==
    /\ pc = "vehicle_positions_fetched"
    /\ trip_updates_data' = fetch_and_parse_realtime_feed(upstream.trip_updates)
    /\ IF IsNone(trip_updates_data')
       THEN Raise(FetchFailed("trip update"))
       ELSE pc' = "trip_updates_fetched" /\ UNCHANGED response
    /\ UNCHANGED <<upstream, vehicle_positions_data, service_alerts_data, vehicle_positions,
                   trip_deviations, vvars, rvars, svars>>

FetchServiceAlerts ==
    /\ pc = "trip_updates_fetched"
    /\ service_alerts_data' = fetch_and_parse_realtime_feed(upstream.service_alerts)
    /\ IF IsNone(service_alerts_data')
       THEN Raise(FetchFailed("service alert"))
       ELSE pc' = "service_alerts_fetched" /\ UNCHANGED response
    /\ UNCHANGED <<upstream, vehicle_positions_data, trip_updates_data, vehicle_positions,
                   trip_deviations, vvars, rvars, svars>>

ExtractVehicles ==
    /\ pc = "service_alerts_fetched"
    /\ vehicle_positions' = ExtractVehiclePositions(vehicle_positions_data).vehicles
    /\ IF ExtractVehiclePositions(vehicle_positions_data).raised # ""
       THEN Raise(ExtractVehiclePositions(vehicle_positions_data).raised)
       ELSE pc' = "vehicles_extracted" /\ UNCHANGED response
    /\ UNCHANGED <<upstream, vehicle_positions_data, trip_updates_data, service_alerts_data,
                   trip_deviations, vvars, rvars, svars>>

ExtractDeviations ==
    /\ pc = "vehicles_extracted"
    /\ IF "entity" \in DOMAIN trip_updates_data
          /\ TripUpdatesRaise(trip_updates_data.entity) # ""
       THEN /\ Raise(TripUpdatesRaise(trip_updates_data.entity))
            /\ UNCHANGED trip_deviations
       ELSE /\ trip_deviations' = ExtractTripDeviations(trip_updates_data)
            /\ pc' = "deviations_extracted"
            /\ UNCHANGED response
    /\ UNCHANGED <<upstream, vehicle_positions_data, trip_updates_data, service_alerts_data,
                   vehicle_positions, vvars, rvars, svars>>

\* The content of the JSONResponse
Snapshot(merged, alerts) ==
    [status |-> "success",
     timestamp |-> Get(Get(vehicle_positions_data, "header", <<>>), "timestamp", None),
     vehicleCount |-> Len(merged),
     vehicles |-> merged,
     realtimeMetrics |-> RealtimeMetrics(DeviationsOf(merged, trip_deviations)),
     alerts |-> alerts]

\* The merge, the metrics, the alerts and the return
MergeAndReturn ==
    /\ pc = "deviations_extracted"
    /\ vehicle_positions' = [i \in 1..Len(vehicle_positions) |->
                                Attach(vehicle_positions[i], trip_deviations)]
    /\ IF ExtractAlerts(service_alerts_data).raised # ""
       THEN Raise(ExtractAlerts(service_alerts_data).raised)
       ELSE /\ pc' = "returned"
            /\ response' = Snapshot(Merge(vehicle_positions, trip_deviations),
                                    ExtractAlerts(service_alerts_data).alerts)
    /\ UNCHANGED <<upstream, vehicle_positions_data, trip_updates_data, service_alerts_data,
                   trip_deviations, vvars, rvars, svars>>

(***************************************************************************)
(* SpecRealtime: one request to /realtime/vehicles, on what the three URLs *)
(* answer.                                                                 *)
(***************************************************************************)
\* The deviations of the trip updates of the index family
Deviations == {-200, -61, -60, 50, 300, 301}

\* The answers of the three URLs, by family.  filter: vehicle entities with
\* and without latitude, longitude and trip id; scan: one trip update, of
\* stop-time updates of every shape; index: trip updates of one stop-time
\* update each, on the same and on different trips; fetch: answers that
\* fail; malformed: documents with one entity that lacks sub-fields, or has
\* a null or an empty list where an object or a translation is expected;
\* example: four vehicles with the deviations -200, -70, 50 and 400
Upstreams(family) ==
    LET Dict(t) == [a \in {x \in DOMAIN t : t[x] # Absent} |-> t[a]]
        Json(document) == [outcome |-> "json", document |-> document]
        Failures == {[outcome |-> "request_exception"], [outcome |-> "json_decode_error"]}
        Header == [timestamp |-> String("1700000000")]
        Document(entities) == [header |-> Header, entity |-> entities]
        Vehicle(n, lat, lon, trip) ==
            [id |-> String(n),
             vehicle |-> [vehicle |-> [id |-> String(n), label |-> String(n)],
                          position |-> Dict([latitude |-> lat, longitude |-> lon,
                                             bearing |-> Number(90)]),
                          trip |-> Dict([tripId |-> trip, routeId |-> String("R1")]),
                          currentStatus |-> String("IN_TRANSIT_TO")]]
        OnTrip(n, trip) == Vehicle(n, Number(33), Number(-112), String(trip))
        VehicleEntities ==
            {Vehicle("v", lat, lon, trip) :
                lat \in {Absent, None, Number(0)}, lon \in {None, Number(-112)},
                trip \in {Absent, None, String("T1")}}
            \cup {[id |-> String("x"), alert |-> [cause |-> String("OTHER_CAUSE")]],
                  [id |-> String("p"),
                   vehicle |-> [position |-> None, trip |-> [tripId |-> String("T1")]]]}
        Fleet == Document(<<OnTrip("a", "T1"), OnTrip("b", "T2"), OnTrip("c", "T1")>>)
        Delay(d) == [delay |-> Number(d)]
        Exposures ==
            {<<Number(125), Absent, Absent>>, <<None, Absent, Absent>>,
             <<String("n/a"), Delay(-70), Absent>>, <<String("300"), Absent, Absent>>,
             <<Number(50), Delay(400), Absent>>, <<Absent, Delay(-70), Absent>>,
             <<Absent, Delay(400), Delay(125)>>, <<Absent, Absent, Delay(125)>>,
             <<Absent, [time |-> Number(5)], Delay(-200)>>, <<Absent, Absent, Absent>>,
             <<Absent, [delay |-> String("n/a")], Delay(125)>>}
        StopTimeUpdates ==
            {Dict([stopSequence |-> seq, scheduleDeviation |-> e[1], arrival |-> e[2],
                   departure |-> e[3]]) :
                seq \in {Absent, Number(1), Number(2)}, e \in Exposures}
        TripUpdate(trip, updates) ==
            [id |-> String("u"),
             tripUpdate |-> [trip |-> Dict([tripId |-> trip]), stopTimeUpdate |-> updates]]
        Reporting(trip, value) ==
            TripUpdate(trip, <<[stopSequence |-> Number(1), scheduleDeviation |-> value]>>)
        IndexEntities ==
            {Reporting(trip, value) :
                trip \in {String("T1"), String("T2"), None},
                value \in {Number(d) : d \in Deviations} \cup {None}}
            \cup {[id |-> String("x"), alert |-> [cause |-> String("OTHER_CAUSE")]]}
        Alert == [id |-> String("al"),
                  alert |-> [cause |-> String("CONSTRUCTION"), effect |-> String("DETOUR"),
                             headerText |-> [translation |->
                                                <<[text |-> String("Detour"),
                                                   language |-> String("en")]>>],
                             informedEntity |-> <<[routeId |-> String("R1")]>>]]
        Alerts == Document(<<Alert>>)
        NoPosition == [id |-> String("p"),
                       vehicle |-> [position |-> None, trip |-> [tripId |-> String("T1")]]]
        NoTrip == [id |-> String("q"),
                   vehicle |-> [position |-> [latitude |-> Number(33), longitude |-> Number(-112)],
                                trip |-> None]]
        Null(key, seq) == Dict([stopSequence |-> Number(seq),
                                arrival |-> IF key = "arrival" THEN None ELSE Absent,
                                departure |-> IF key = "departure" THEN None ELSE Absent])
        Untranslated == [id |-> String("al"),
                         alert |-> [cause |-> String("STRIKE"),
                                    headerText |-> [translation |-> <<>>]]]
        Answers(v, t, a) == [vehicle_positions |-> v, trip_updates |-> t, service_alerts |-> a]
    IN  CASE family = "filter" ->
                {Answers(Json(v), Json(t), Json(Alerts)) :
                    v \in {Document(e) : e \in SeqsUpTo(VehicleEntities, MaxVehicles)}
                          \cup {[header |-> Header]},
                    t \in {Document(<<Reporting(String("T1"), Number(-70))>>),
                           [header |-> Header]}}
          [] family = "scan" ->
                {Answers(Json(Fleet), Json(Document(<<t>>)), Json(Document(<<>>))) :
                    t \in {TripUpdate(String("T1"), u) :
                              u \in SeqsUpTo(StopTimeUpdates, MaxUpdates)}
                          \cup {[id |-> String("u"),
                                 tripUpdate |-> [trip |-> [tripId |-> String("T1")]]]}}
          [] family = "index" ->
                {Answers(Json(Fleet), Json(Document(e)), Json(Alerts)) :
                    e \in SeqsUpTo(IndexEntities, MaxEntities)}
          [] family = "malformed" ->
                {Answers(Json(Document(v)), Json(Document(t)), Json(Document(a))) :
                    v \in {<<OnTrip("a", "T1"), OnTrip("b", "T2")>>,
                           <<NoPosition, OnTrip("b", "T2")>>,
                           <<OnTrip("a", "T1"), NoTrip>>,
                           <<[id |-> String("e"), vehicle |-> [currentStatus |-> String("STOPPED_AT")]],
                             OnTrip("b", "T2")>>},
                    t \in {<<Reporting(String("T1"), Number(50)), Reporting(String("T2"), Number(400))>>,
                           <<TripUpdate(String("T1"), <<Null("arrival", 1)>>),
                             Reporting(String("T2"), Number(400))>>,
                           <<TripUpdate(String("T1"), <<Null("departure", 2),
                                                        Reporting(String("T1"), Number(50)).tripUpdate.stopTimeUpdate[1]>>),
                             Reporting(String("T2"), Number(400))>>,
                           <<TripUpdate(String("T1"), <<Null("arrival", 1),
                                                        [stopSequence |-> Number(2),
                                                         scheduleDeviation |-> Number(50)]>>),
                             Reporting(String("T2"), Number(400))>>,
                           <<[id |-> String("u"), tripUpdate |-> [trip |-> None]],
                             Reporting(String("T2"), Number(400))>>,
                           <<[id |-> String("u"), tripUpdate |-> [timestamp |-> String("1700000000")]],
                             Reporting(String("T2"), Number(400))>>},
                    a \in {<<Alert, Alert>>,
                           <<Untranslated, Alert>>,
                           <<[id |-> String("al"), alert |-> [cause |-> String("STRIKE")]], Alert>>}}
          [] family = "fetch" ->
                {Answers(v, t, a) :
                    v \in Failures \cup {Json(Fleet)},
                    t \in Failures \cup {Json(Document(<<Reporting(String("T2"), Number(50))>>))},
                    a \in Failures \cup {Json(Alerts)}}
          [] OTHER ->
                {Answers(Json(Document(<<OnTrip("a", "T1"), OnTrip("b", "T2"),
                                         OnTrip("c", "T3"), OnTrip("d", "T4")>>)),
                         Json(Document(<<Reporting(String("T1"), Number(-200)),
                                         Reporting(String("T2"), Number(-70)),
                                         Reporting(String("T3"), Number(50)),
                                         Reporting(String("T4"), Number(400))>>)),
                         Json(Alerts))}

InitRealtime ==
    /\ feed = BaseFeed
    /\ NewValidator
    /\ NoReport
    /\ NoSession
    /\ \E family \in {"filter", "scan", "index", "fetch", "malformed", "example"} :
            upstream \in Upstreams(family)
    /\ pc = "start"
    /\ vehicle_positions_data = Unbound
    /\ trip_updates_data = Unbound
    /\ service_alerts_data = Unbound
    /\ vehicle_positions = <<>>
    /\ trip_deviations = <<>>
    /\ response = [status |-> "none"]

NextRealtime ==
    \/ FetchVehiclePositions
    \/ FetchTripUpdates
    \/ FetchServiceAlerts
    \/ ExtractVehicles
    \/ ExtractDeviations
    \/ MergeAndReturn

SpecRealtime == InitRealtime /\ [][NextRealtime]_vars

(***************************************************************************)
(* What a caller sees of a returned dict.                                  *)
(***************************************************************************)
Called == returned # <<>>
Deref(r) == [is_valid |-> r.is_valid, errors |-> heap[r.errors], warnings |-> heap[r.warnings]]
LastResult == Deref(returned[Len(returned)])

IssuesOfType(errs, types) ==
    LET Has(i) == "type" \in DOMAIN i /\ i.type \in types IN SelectSeq(errs, Has)

NoDuplicates(s) == Cardinality(Range(s)) = Len(s)

(***************************************************************************)
(* C1. Every dict validate_feed returns, from the try block and from the   *)
(* except block alike, has is_valid true exactly when its errors list is   *)
(* empty.                                                                  *)
(***************************************************************************)
C1_ValidIffNoErrors ==
    \A i \in 1..Len(returned) :
        Deref(returned[i]).is_valid = (Deref(returned[i]).errors = <<>>)

\* A call that raised with nothing accumulated, and one that returned errors
C1_Witness ==
    /\ Called
    /\ raised # <<>>
    /\ heap[errors] = <<>>
    /\ ~LastResult.is_valid

(***************************************************************************)
(* C2. For every feed the result holds, for each of the five required      *)
(* files, exactly one missing_file/empty_file/invalid_file issue naming it *)
(* when its table is absent, empty or wrongly shaped and none when it is   *)
(* populated; and the result is invalid when some table is defective.      *)
(***************************************************************************)
\* A populated table: a DataFrame with rows and columns, or a (rows, columns) pair with rows
Populated(v) ==
    \/ v.kind = "df" /\ Len(v.rows) > 0 /\ Len(v.cols) > 0
    \/ v.kind = "tuple" /\ Len(v.items) = 2 /\ v.items[1] # 0

Defective(f, file) == AttrName(file) \notin DOMAIN f \/ ~Populated(f[AttrName(file)])

RequiredFileTypes == {"missing_file", "empty_file", "invalid_file"}

IssuesNaming(errs, file) ==
    LET Names(i) == "file" \in DOMAIN i /\ i.file = file
    IN  SelectSeq(IssuesOfType(errs, RequiredFileTypes), Names)

C2_OneIssuePerDefectiveFile ==
    Called =>
        /\ \A file \in Range(required_files) :
              Len(IssuesNaming(LastResult.errors, file)) = IF Defective(feed, file) THEN 1 ELSE 0
        /\ (\E file \in Range(required_files) : Defective(feed, file)) => ~LastResult.is_valid

\* The first and the last required table defective, in different ways
C2_Witness ==
    /\ Called
    /\ "agency" \notin DOMAIN feed
    /\ "stop_times" \in DOMAIN feed /\ feed["stop_times"] = EmptyFrame
    /\ ~Defective(feed, "trips.txt")
    /\ Len(LastResult.errors) >= 2

(***************************************************************************)
(* C3. When the service-id check has run and calendar or calendar_dates    *)
(* defines service ids: if some service_id of trips is in neither table,   *)
(* the error list holds exactly one service-id foreign_key issue, listing  *)
(* exactly those ids; otherwise it holds none.                             *)
(***************************************************************************)
\* The values a table defines in a column ({} when it has no such column or no rows)
Defines(f, a, col) ==
    IF a \in DOMAIN f /\ f[a].kind = "df" /\ col \in Range(f[a].cols) /\ Len(f[a].rows) > 0
    THEN {f[a].rows[r][CHOOSE c \in 1..Len(f[a].cols) : f[a].cols[c] = col][1] :
            r \in 1..Len(f[a].rows)}
    ELSE {}

DanglingServiceIds(f) ==
    Defines(f, "trips", "service_id")
        \ (Defines(f, "calendar", "service_id") \cup Defines(f, "calendar_dates", "service_id"))

ServiceIdIssues(errs) ==
    LET Is(i) == i.message.fmt = "Invalid service_id references in trips.txt: {ids}"
    IN  SelectSeq(IssuesOfType(errs, {"foreign_key"}), Is)

C3_ServiceIdForeignKey ==
    (/\ Called
     /\ "service_id" \in Range(completed)
     /\ Defines(feed, "calendar", "service_id") \cup Defines(feed, "calendar_dates", "service_id") # {})
    => IF DanglingServiceIds(feed) # {}
       THEN /\ Len(ServiceIdIssues(heap[errors])) = 1
            /\ Range(ServiceIdIssues(heap[errors])[1].message.ids) = DanglingServiceIds(feed)
            /\ NoDuplicates(ServiceIdIssues(heap[errors])[1].message.ids)
       ELSE ServiceIdIssues(heap[errors]) = <<>>

\* Trips use two services, one defined by calendar_dates alone, the other by no table
C3_Witness ==
    /\ Called
    /\ raised = <<>>
    /\ Defines(feed, "calendar", "service_id") = {}
    /\ Defines(feed, "calendar_dates", "service_id") = {1}
    /\ Defines(feed, "trips", "service_id") = {1, 2}
    /\ Len(ServiceIdIssues(LastResult.errors)) = 1

\* Every service of trips is defined, one by each table
C3_WitnessNone ==
    /\ Called
    /\ Defines(feed, "calendar", "service_id") = {1}
    /\ Defines(feed, "calendar_dates", "service_id") = {2}
    /\ Defines(feed, "trips", "service_id") = {1, 2}
    /\ IssuesOfType(LastResult.errors, {"foreign_key"}) = <<>>

(***************************************************************************)
(* C4. When the route-id check has run on trips and routes that both carry *)
(* a route_id column: if some route_id of trips is not in routes, the      *)
(* error list holds exactly one route-id foreign_key issue, listing        *)
(* exactly those ids; otherwise it holds none.                             *)
(***************************************************************************)
DanglingRouteIds(f) == Defines(f, "trips", "route_id") \ Defines(f, "routes", "route_id")

RouteIdIssues(errs) ==
    LET Is(i) == i.message.fmt = "Invalid route_id references in trips.txt: {ids}"
    IN  SelectSeq(IssuesOfType(errs, {"foreign_key"}), Is)

C4_RouteIdForeignKey ==
    (/\ Called
     /\ "route_id" \in Range(completed)
     /\ Defines(feed, "trips", "route_id") # {}
     /\ Defines(feed, "routes", "route_id") # {})
    => IF DanglingRouteIds(feed) # {}
       THEN /\ Len(RouteIdIssues(heap[errors])) = 1
            /\ Range(RouteIdIssues(heap[errors])[1].message.ids) = DanglingRouteIds(feed)
            /\ NoDuplicates(RouteIdIssues(heap[errors])[1].message.ids)
       ELSE RouteIdIssues(heap[errors]) = <<>>

\* Trips use two routes, routes defines one of them
C4_Witness ==
    /\ Called
    /\ raised = <<>>
    /\ Defines(feed, "trips", "route_id") = {1, 2}
    /\ Defines(feed, "routes", "route_id") = {1}
    /\ Len(RouteIdIssues(LastResult.errors)) = 1
    /\ ServiceIdIssues(LastResult.errors) = <<>>

(***************************************************************************)
(* C5. When the coordinate check has run on stops that carry stop_id,      *)
(* stop_lat and stop_lon: the result holds exactly one coordinates issue,  *)
(* listing in row order exactly the ids of the stops that have both        *)
(* coordinates and whose latitude is outside [-90, 90] or longitude        *)
(* outside [-180, 180], when there is such a stop, and none otherwise.     *)
(* The limits themselves are valid, and a stop with a missing latitude or  *)
(* longitude is never listed.                                              *)
(***************************************************************************)
StopField(f, r, col) ==
    f["stops"].rows[r][CHOOSE c \in 1..Len(f["stops"].cols) : f["stops"].cols[c] = col]

BadStop(f, r) ==
    /\ StopField(f, r, "stop_lat") # NA
    /\ StopField(f, r, "stop_lon") # NA
    /\ \/ StopField(f, r, "stop_lat")[1] \notin -90..90
       \/ StopField(f, r, "stop_lon")[1] \notin -180..180

RECURSIVE BadStopIdsFrom(_, _)
BadStopIdsFrom(f, r) ==
    IF r > Len(f["stops"].rows) THEN <<>>
    ELSE (IF BadStop(f, r) THEN <<StopField(f, r, "stop_id")[1]>> ELSE <<>>)
         \o BadStopIdsFrom(f, r + 1)

CoordinateIssues(errs) == IssuesOfType(errs, {"coordinates"})

HasStopColumns(f) ==
    /\ "stops" \in DOMAIN f
    /\ f["stops"].kind = "df"
    /\ {"stop_id", "stop_lat", "stop_lon"} \subseteq Range(f["stops"].cols)

C5_CoordinatesIssue ==
    (Called /\ "coordinates" \in Range(completed) /\ HasStopColumns(feed))
    => IF BadStopIdsFrom(feed, 1) # <<>>
       THEN /\ Len(CoordinateIssues(LastResult.errors)) = 1
            /\ CoordinateIssues(LastResult.errors)[1].message.ids = BadStopIdsFrom(feed, 1)
       ELSE CoordinateIssues(LastResult.errors) = <<>>

\* A stop beyond a limit is listed, next to one whose other coordinate is missing
C5_Witness ==
    /\ Called
    /\ HasStopColumns(feed)
    /\ Len(feed["stops"].rows) = 2
    /\ StopField(feed, 1, "stop_lat") = Cell(91) /\ StopField(feed, 1, "stop_lon") = NA
    /\ StopField(feed, 2, "stop_lon") = Cell(-181)
    /\ LastResult.errors = <<CoordinatesIssue(<<2>>)>>

\* Stops on the limits alone: no issue
C5_WitnessLimits ==
    /\ Called
    /\ HasStopColumns(feed)
    /\ Len(feed["stops"].rows) = 2
    /\ StopField(feed, 1, "stop_lat") = Cell(90)
    /\ StopField(feed, 2, "stop_lon") = Cell(-180)
    /\ LastResult.is_valid

FreshValidation(f) ==
    LET out == validate_checks(f, <<>>) IN
    IF out.raised = <<>>
    THEN [is_valid |-> out.errors = <<>>, errors |-> out.errors, warnings |-> <<>>]
    ELSE [is_valid |-> FALSE, errors |-> <<InternalErrorIssue(out.raised)>>, warnings |-> <<>>]

C7_EachCallAsFresh == Called => LastResult = FreshValidation(feed)

C7_ReturnedUnchanged ==
    \A i \in 1..Len(returned) :
        /\ returned'[i] = returned[i]
        /\ heap'[returned[i].errors] = heap[returned[i].errors]
        /\ heap'[returned[i].warnings] = heap[returned[i].warnings]

C7_Stateless == []C7_EachCallAsFresh /\ [][C7_ReturnedUnchanged]_vvars

\* A valid result after two calls that returned errors, one of them from the except block
C7_Witness ==
    /\ Len(returned) = 3
    /\ Deref(returned[1]).errors # <<>>
    /\ Len(Deref(returned[2]).errors) = 1
    /\ "type" \notin DOMAIN Deref(returned[2]).errors[1]
    /\ LastResult.is_valid

(***************************************************************************)
(* Claims about generate_report.                                           *)
(***************************************************************************)
ReportReturned == report.status = "returned"
ReportSummary == report.value.summary
HealthScore == ReportSummary.feed_health_score

\* Every table the feed holds is a table or None
TablesOnly(f) == \A a \in DOMAIN f : f[a] = None \/ IsDataFrame(f[a])

\* C8: generate_report called with None proceeds as on the result that is
\* invalid, has the single error "No validation results provided" and no
\* warnings: it raises only where every validation result makes it raise,
\* never on a feed of tables, and the report it returns is invalid, scores 0
\* and holds that single error as its validation_results.
C8_AbsentValidation ==
    (report.status # "none" /\ validation_arg = None) =>
        LET generic == [message |-> Message("No validation results provided", <<>>, <<>>)]
            synthetic == [is_valid |-> FALSE, errors |-> <<generic>>, warnings |-> <<>>]
        IN  /\ validation_results = synthetic
            /\ report = generate_report(report_feed, synthetic)
            /\ ~ReportReturned =>
                  \A v \in ValidationDicts : generate_report(report_feed, v).status = "raised"
            /\ TablesOnly(report_feed) => ReportReturned
            /\ ReportReturned =>
                  /\ ReportSummary.overall_status = "invalid"
                  /\ HealthScore = Num(0)
                  /\ report.value.validation_results.is_valid = FALSE
                  /\ report.value.validation_results.errors = <<generic>>
                  /\ report.value.validation_results.warnings = <<>>

\* A report of a feed of full tables, generated without a validation result
C8_Witness ==
    /\ validation_arg = None
    /\ ReportReturned
    /\ \A a \in Range(files_to_check) : HasAttr(report_feed, a) /\ report_feed[a] = FullFrame
    /\ HealthScore = Num(0)
    /\ Len(report.value.validation_results.errors) = 1

\* generate_report(None) on a feed whose calendar is a list
C8_WitnessRaised ==
    /\ validation_arg = None
    /\ report.status = "raised"
    /\ HasAttr(report_feed, "calendar") /\ report_feed["calendar"] = List

\* The validation result with one more error, and with one more warning
OneMoreIssue(v) ==
    { [v EXCEPT !["errors"] = Append(@, ServiceIdIssue({0}))],
      [v EXCEPT !["warnings"] = Append(@, [type |-> "warning",
                                           message |-> Message("warning", <<>>, <<0>>)])] }

\* The health score the generator computes for validation result v, which the
\* report carries whenever one is returned
ScoreOf(v) == calculate_health_score(report_feed, v)
Generated == report.status # "none"

\* C9: the health score of every feed and validation result is between 0 and
\* 100, it is 0 when the validation result is not marked valid, and the same
\* feed with one more error or one more warning in the validation result
\* never scores higher; a returned report carries that score.
C9_HealthScoreBounds ==
    Generated =>
        /\ ~RLess(ScoreOf(validation_results), Num(0))
        /\ ~RLess(Num(100), ScoreOf(validation_results))
        /\ ~Get(validation_results, "is_valid", FALSE) => ScoreOf(validation_results) = Num(0)
        /\ \A v \in OneMoreIssue(validation_results) :
              ~RLess(ScoreOf(validation_results), ScoreOf(v))
        /\ ReportReturned => HealthScore = ScoreOf(validation_results)

\* A valid result scoring strictly between the limits, where one more error
\* and one more warning each lower the score
C9_Witness ==
    /\ ReportReturned
    /\ Get(validation_results, "is_valid", FALSE)
    /\ RLess(Num(0), HealthScore) /\ RLess(HealthScore, Num(100))
    /\ \A v \in OneMoreIssue(validation_results) : RLess(ScoreOf(v), HealthScore)

\* A valid result whose deductions exceed 100: the score stops at 0
C9_WitnessFloor ==
    /\ ReportReturned
    /\ Get(validation_results, "is_valid", FALSE)
    /\ HealthScore = Num(0)

RECURSIVE Sum(_)
Sum(g) ==
    IF DOMAIN g = {} THEN 0
    ELSE LET k == CHOOSE j \in DOMAIN g : TRUE
         IN  g[k] + Sum([j \in DOMAIN g \ {k} |-> g[j]])

RECURSIVE Product(_)
Product(g) ==
    IF DOMAIN g = {} THEN 1
    ELSE LET k == CHOOSE j \in DOMAIN g : TRUE
         IN  g[k] * Product([j \in DOMAIN g \ {k} |-> g[j]])

\* The files of the completeness map c below 80, and those at exactly 80
Below80(c) == {k \in DOMAIN c : c[k][1] < 80 * c[k][2]}
Exactly80(c) == {k \in DOMAIN c : c[k][1] = 80 * c[k][2]}

\* A common denominator L of the halved completeness values of c, and L times
\* 100 - 10*errors - 5*warnings - sum of 0.5*(80 - c[k]) over the files below 80
CommonDenominator(c) == Product([k \in DOMAIN c |-> 2 * c[k][2]])
ScaledFormula(c, v) ==
    LET L == CommonDenominator(c)
    IN  (100 - 10 * Len(v.errors) - 5 * Len(v.warnings)) * L
        - Sum([k \in Below80(c) |-> (80 * c[k][2] - c[k][1]) * (L \div (2 * c[k][2]))])

\* C10: for a validation result marked valid the health score is
\* 100 - 10*errors - 5*warnings - sum over the files of the collapsed
\* completeness map below 80 of 0.5*(80 - completeness), clamped to [0, 100];
\* files at exactly 80 take nothing off, so it is the score of the map without
\* them, and with no error, no warning and every file at 80 or above it is 100.
C10_HealthScoreFormula ==
    (Generated /\ Get(validation_results, "is_valid", FALSE)) =>
        LET c == calculate_completeness(report_feed)
            L == CommonDenominator(c)
            raw == ScaledFormula(c, validation_results)
            rest == [k \in DOMAIN c \ Exactly80(c) |-> c[k]]
            score == ScoreOf(validation_results)
        IN  /\ IF raw < 0 THEN score = <<0, 1>>
               ELSE IF raw > 100 * L THEN score = <<100, 1>>
               ELSE score[1] * L = raw * score[2]
            /\ raw * CommonDenominator(rest) = ScaledFormula(rest, validation_results) * L
            /\ (/\ Below80(c) = {}
                /\ validation_results.errors = <<>>
                /\ validation_results.warnings = <<>>) => score = <<100, 1>>
            /\ ReportReturned => HealthScore = score

\* One error, one warning, one file at 60 and another at exactly 80:
\* 100 - 10 - 5 - 0.5*(80 - 60) = 75
C10_Witness ==
    /\ ReportReturned
    /\ Get(validation_results, "is_valid", FALSE)
    /\ Len(validation_results.errors) = 1 /\ Len(validation_results.warnings) = 1
    /\ \E a, b \in DOMAIN calculate_completeness(report_feed) :
          /\ calculate_completeness(report_feed)[a] = <<60, 1>>
          /\ calculate_completeness(report_feed)[b] = <<80, 1>>
    /\ HealthScore = <<75, 1>>

\* No error, no warning, every file at 80 or above and one at exactly 80
C10_WitnessFull ==
    /\ ReportReturned
    /\ Get(validation_results, "is_valid", FALSE)
    /\ validation_results.errors = <<>> /\ validation_results.warnings = <<>>
    /\ Exactly80(calculate_completeness(report_feed)) # {}
    /\ HealthScore = <<100, 1>>

(***************************************************************************)
(* Claims about the summary.                                               *)
(***************************************************************************)
\* text holds the letters r, e, q, u, i, r, e, d in a row, each in either case
HasRequired(text) ==
    \E i \in 1..(Len(text) - 7) :
        \A k \in 1..8 : SubSeq(text, i + k - 1, i + k - 1)
                            \in {SubSeq("required", k, k), SubSeq("REQUIRED", k, k)}

\* The issue is one the required-file check makes
FromRequiredFileCheck(issue) ==
    /\ "type" \in DOMAIN issue /\ issue.type \in RequiredFileTypes
    /\ "file" \in DOMAIN issue /\ issue.file \in Range(required_files)

\* C11: the summary's overall status is "valid" exactly when the validation
\* result's is_valid is true and "invalid" otherwise; critical_issues is the
\* subsequence, in order, of the errors whose message text contains
\* "required" in any letter case; every issue of the required-file check
\* among the errors is a critical issue.
C11_StatusAndCriticalIssues ==
    ReportReturned =>
        LET errs == IF "errors" \in DOMAIN validation_results
                    THEN validation_results.errors ELSE <<>>
            Text(e) == IF "message" \in DOMAIN e THEN Str(e.message) ELSE ""
            Wanted(e) == HasRequired(Text(e))
        IN  /\ ReportSummary.overall_status = "valid"
                  <=> ("is_valid" \in DOMAIN validation_results /\ validation_results.is_valid)
            /\ ReportSummary.overall_status \in {"valid", "invalid"}
            /\ ReportSummary.critical_issues = SelectSeq(errs, Wanted)
            /\ \A i \in 1..Len(errs) :
                  FromRequiredFileCheck(errs[i]) => errs[i] \in Range(ReportSummary.critical_issues)

\* Two errors of a caller, the first without the word and the second with it
\* in capitals: only the second is critical
C11_Witness ==
    /\ ReportReturned
    /\ Len(validation_results.errors) = 2
    /\ ~HasRequired(MessageOf(validation_results.errors[1]))
    /\ Contains(MessageOf(validation_results.errors[2]), "REQUIRED")
    /\ ReportSummary.critical_issues = <<validation_results.errors[2]>>

\* The result validate_feed returned for a feed with two defective required
\* tables: both issues are critical
C11_WitnessRequiredFiles ==
    /\ ReportReturned
    /\ validation_arg = ValidatedResult(report_feed)
    /\ Len(validation_results.errors) = 2
    /\ \A i \in 1..2 : FromRequiredFileCheck(validation_results.errors[i])
    /\ ReportSummary.critical_issues = validation_results.errors
    /\ ReportSummary.overall_status = "invalid"

\* The result validate_feed returned when calendar and calendar_dates are both
\* missing: a missing_file issue that is not critical
C11_WitnessCalendar ==
    /\ ReportReturned
    /\ validation_arg = ValidatedResult(report_feed)
    /\ validation_results.errors = <<CalendarMissingIssue>>
    /\ ReportSummary.critical_issues = <<>>

(***************************************************************************)
(* Claims about the exports.                                               *)
(***************************************************************************)
CsvExported == exported.format = "csv"
JsonExported == exported.format = "json"

\* The category named in the first column of a row of a metric: the category
\* itself, or the category followed by " - " and a key
RowOfCategory(row, category) ==
    \/ row[1] = category
    \/ /\ Len(row[1]) > Len(category) + 3
       /\ SubSeq(row[1], 1, Len(category) + 3) = category \o " - "

\* The number of values of a category once its nested dicts are flattened
\* one level; a category that is no dict is one value
ValuesOf(metrics) ==
    IF IsDict(metrics)
    THEN Len(Flatten([i \in 1..Len(metrics.items) |->
            IF IsDict(metrics.items[i][2]) THEN metrics.items[i][2].items
            ELSE <<metrics.items[i]>>]))
    ELSE 1

\* C12: the CSV export is the header row [Category, Metric, Value], then one
\* row per feed-info field, then the rows of the metrics, every category of
\* report.metrics contributing a row per value (nested dicts flattened one
\* level), then the status row, the health-score row, one row per error, one
\* per warning and one per recommendation, in this order and nothing else.
C12_CsvRows ==
    CsvExported =>
        LET r == report.value
            rows == exported.rows
            info == r.feed_info.items
            cats == r.metrics.items
            counts == [i \in 1..Len(cats) |-> ValuesOf(cats[i][2])]
            Before(i) == Len(Flatten([k \in 1..(i - 1) |-> [j \in 1..counts[k] |-> k]]))
            m0 == 1 + Len(info)
            v0 == m0 + Before(Len(cats) + 1)
            errs == Get(r.validation_results, "errors", <<>>)
            warns == Get(r.validation_results, "warnings", <<>>)
            recs == r.summary.recommendations
            e0 == v0 + 2
            w0 == e0 + Len(errs)
            r0 == w0 + Len(warns)
        IN  /\ Len(rows) = r0 + Len(recs)
            /\ rows[1] = <<"Category", "Metric", "Value">>
            /\ \A i \in 1..Len(info) : rows[1 + i][1] = "Feed Info" /\ rows[1 + i][2] = info[i][1]
            /\ \A i \in 1..Len(cats) : \A j \in 1..counts[i] :
                  RowOfCategory(rows[m0 + Before(i) + j], cats[i][1])
            /\ rows[v0 + 1][1] = "Validation" /\ rows[v0 + 1][2] = "Overall Status"
            /\ rows[v0 + 2][1] = "Validation" /\ rows[v0 + 2][2] = "Health Score"
            /\ \A i \in 1..Len(errs) : rows[e0 + i][1] = "Error"
            /\ \A i \in 1..Len(warns) : rows[w0 + i][1] = "Warning"
            /\ \A i \in 1..Len(recs) : rows[r0 + i][1] = "Recommendation"

\* A CSV export of a report whose metrics hold route colors, none of its rows
\* being of the category "Route Colors"
C12_Witness ==
    /\ CsvExported
    /\ Item(report.value.metrics, "Route Colors").items # <<>>
    /\ \A i \in 1..Len(exported.rows) : ~RowOfCategory(exported.rows[i], "Route Colors")

\* The report read back from the exported text
ReadBack == json_loads(exported.text)

\* C13: the JSON export of every report generate_report returns succeeds, and
\* reading the text back gives the same feed_info, the same metrics and the
\* same health score.
C13_JsonRoundTrip ==
    JsonExported =>
        /\ exported.status = "returned"
        /\ Item(ReadBack, "feed_info") = report.value.feed_info
        /\ Item(ReadBack, "metrics") = report.value.metrics
        /\ Item(Item(ReadBack, "summary"), "feed_health_score").v
              = report.value.summary.feed_health_score

\* The export of a report of a feed whose calendar has whole weekday columns:
\* their sums are numpy integers, and json.dumps raises a TypeError
C13_Witness ==
    /\ JsonExported
    /\ exported.status = "raised"
    /\ exported.exc = <<"Object of type ", "int64", " is not JSON serializable">>
    /\ Item(Item(Item(report.value.metrics, "Service Dates"), "daily_service_counts"),
            "monday") = Py("int64", 2)

\* An export that succeeds, of a report with feed info, route colors and
\* service hours: the text read back gives the same values
C13_WitnessReturned ==
    /\ JsonExported
    /\ exported.status = "returned"
    /\ Item(ReadBack, "metrics") = report.value.metrics
    /\ Item(report.value.metrics, "Route Colors").items # <<>>
    /\ Item(report.value.feed_info, "feed_start_date") # None

(***************************************************************************)
(* Claims about the real-time merge.                                       *)
(***************************************************************************)
SnapshotReturned == pc = "returned" /\ response.status = "success"

\* The entities of a parsed feed
EntitiesOf(data) == IF "entity" \in DOMAIN data THEN data.entity ELSE <<>>

\* d has the key and its value is not null
NonMissing(d, key) == key \in DOMAIN d /\ d[key] # None

\* The part of a vehicle entity under key, the empty object when it has none
PartOf(entity, key) ==
    IF key \in DOMAIN entity.vehicle THEN entity.vehicle[key] ELSE <<>>

\* A vehicle entity whose latitude, longitude and tripId are all non-missing
IsLocatedOnTrip(entity) ==
    /\ "vehicle" \in DOMAIN entity
    /\ NonMissing(PartOf(entity, "position"), "latitude")
    /\ NonMissing(PartOf(entity, "position"), "longitude")
    /\ NonMissing(PartOf(entity, "trip"), "tripId")

\* The vehicles of a list are the entities of kept, one by one
SameVehicles(vehicles, kept) ==
    /\ Len(vehicles) = Len(kept)
    /\ \A i \in 1..Len(kept) :
        /\ vehicles[i].id = PartOf(kept[i], "vehicle").id
        /\ vehicles[i].position.latitude = kept[i].vehicle.position.latitude
        /\ vehicles[i].position.longitude = kept[i].vehicle.position.longitude
        /\ vehicles[i].trip.tripId = kept[i].vehicle.trip.tripId

(***************************************************************************)
(* C14. The vehicles of the merged output are exactly the vehicle entities *)
(* of the Vehicle Positions feed whose latitude, longitude and tripId are  *)
(* all non-missing, in the order of the feed, and vehicleCount is their    *)
(* number; an entity missing one of the three is dropped; a vehicle that   *)
(* is kept starts with scheduleDeviation null.                             *)
(***************************************************************************)
C14_VehicleFilter ==
    LET kept == SelectSeq(EntitiesOf(vehicle_positions_data), IsLocatedOnTrip)
    IN  /\ pc = "vehicles_extracted" =>
            /\ SameVehicles(vehicle_positions, kept)
            /\ \A i \in 1..Len(vehicle_positions) :
                    vehicle_positions[i].scheduleDeviation = None
        /\ SnapshotReturned =>
            /\ SameVehicles(response.vehicles, kept)
            /\ response.vehicleCount = Len(kept)

\* Two vehicle entities, the first without a trip id and dropped, the second
\* at latitude 0 and kept
C14_Witness ==
    /\ SnapshotReturned
    /\ Len(EntitiesOf(vehicle_positions_data)) = 2
    /\ "vehicle" \in DOMAIN vehicle_positions_data.entity[1]
    /\ ~IsLocatedOnTrip(vehicle_positions_data.entity[1])
    /\ NonMissing(PartOf(vehicle_positions_data.entity[1], "position"), "latitude")
    /\ NonMissing(PartOf(vehicle_positions_data.entity[1], "position"), "longitude")
    /\ IsLocatedOnTrip(vehicle_positions_data.entity[2])
    /\ response.vehicleCount = 1
    /\ response.vehicles[1].position.latitude = Number(0)

\* A vehicle without a latitude and one with a null longitude are dropped
C14_WitnessPosition ==
    /\ SnapshotReturned
    /\ Len(EntitiesOf(vehicle_positions_data)) = 2
    /\ \A i \in 1..2 : "vehicle" \in DOMAIN vehicle_positions_data.entity[i]
    /\ "latitude" \notin DOMAIN PartOf(vehicle_positions_data.entity[1], "position")
    /\ NonMissing(PartOf(vehicle_positions_data.entity[1], "trip"), "tripId")
    /\ "longitude" \in DOMAIN PartOf(vehicle_positions_data.entity[2], "position")
    /\ ~NonMissing(PartOf(vehicle_positions_data.entity[2], "position"), "longitude")
    /\ NonMissing(PartOf(vehicle_positions_data.entity[2], "position"), "latitude")
    /\ NonMissing(PartOf(vehicle_positions_data.entity[2], "trip"), "tripId")
    /\ response.vehicleCount = 0

\* The deviations have been extracted from the Trip Updates feed
Indexed == pc \in {"deviations_extracted", "returned"}

\* The trip-update entities of the feed that carry the trip id
UpdatesOf(trip_id) ==
    {i \in 1..Len(EntitiesOf(trip_updates_data)) :
        /\ "tripUpdate" \in DOMAIN trip_updates_data.entity[i]
        /\ "trip" \in DOMAIN trip_updates_data.entity[i].tripUpdate
        /\ NonMissing(trip_updates_data.entity[i].tripUpdate.trip, "tripId")
        /\ trip_updates_data.entity[i].tripUpdate.trip.tripId = trip_id}

\* The stop-time updates of a trip-update entity
StopTimeUpdatesOf(entity) ==
    IF "stopTimeUpdate" \in DOMAIN entity.tripUpdate THEN entity.tripUpdate.stopTimeUpdate
    ELSE <<>>

\* What a stop-time update exposes: its scheduleDeviation if present, else
\* its arrival.delay, else its departure.delay; <<>> when it has none
Exposes(update) ==
    IF "scheduleDeviation" \in DOMAIN update THEN <<update.scheduleDeviation>>
    ELSE IF "arrival" \in DOMAIN update /\ "delay" \in DOMAIN update.arrival
    THEN <<update.arrival.delay>>
    ELSE IF "departure" \in DOMAIN update /\ "delay" \in DOMAIN update.departure
    THEN <<update.departure.delay>>
    ELSE <<>>

\* The integer of what a stop-time update exposes, <<>> when it exposes
\* nothing or nothing usable
UsableValue(update) == IF Exposes(update) = <<>> THEN <<>> ELSE int(Exposes(update)[1])

\* The stop sequence of a stop-time update, 0 when it has none
StopSequenceOf(update) ==
    IF "stopSequence" \in DOMAIN update THEN update.stopSequence.number ELSE 0

\* d is the value of a stop-time update that has the highest stop sequence
\* among those of updates that expose a usable value
IsLatestUsable(d, updates) ==
    \E i \in 1..Len(updates) :
        /\ UsableValue(updates[i]) = <<d>>
        /\ \A j \in 1..Len(updates) :
               UsableValue(updates[j]) # <<>>
                   => StopSequenceOf(updates[j]) <= StopSequenceOf(updates[i])

\* The stop-time update carries a departure.delay of d and neither a
\* scheduleDeviation nor an arrival
OnlyDepartureDelay(update, d) ==
    /\ DOMAIN update \subseteq {"stopSequence", "departure"}
    /\ "departure" \in DOMAIN update
    /\ "delay" \in DOMAIN update.departure
    /\ update.departure.delay = Number(d)

\* The trips whose one trip update has one stop-time update, of departure.delay d
TripsDelayedBy(d) ==
    {t \in {String("T1"), String("T2")} :
        /\ Cardinality(UpdatesOf(t)) = 1
        /\ \A i \in UpdatesOf(t) :
            /\ Len(StopTimeUpdatesOf(trip_updates_data.entity[i])) = 1
            /\ OnlyDepartureDelay(StopTimeUpdatesOf(trip_updates_data.entity[i])[1], d)}

(***************************************************************************)
(* C15. The deviation of a trip-update entity is the value exposed by the  *)
(* stop-time update of highest stopSequence among those that expose a      *)
(* usable value, where a stop-time update exposes its scheduleDeviation if *)
(* present, else its arrival.delay, else its departure.delay; the trip of  *)
(* an entity without such a stop-time update gets no deviation.  So a      *)
(* vehicle on a trip whose update has one stop-time update, carrying only  *)
(* departure.delay = 125, gets scheduleDeviation 125 and counts as on-time.*)
(***************************************************************************)
C15_LatestUsableDeviation ==
    /\ Indexed =>
        \A t \in {String("T1"), String("T2")} :
            \A i \in UpdatesOf(t) :
                UpdatesOf(t) = {i} =>
                    LET updates == StopTimeUpdatesOf(trip_updates_data.entity[i])
                    IN  IF \E j \in 1..Len(updates) : UsableValue(updates[j]) # <<>>
                        THEN /\ t \in DOMAIN trip_deviations
                             /\ IsLatestUsable(trip_deviations[t], updates)
                        ELSE t \notin DOMAIN trip_deviations
    /\ SnapshotReturned =>
        /\ \A k \in 1..Len(response.vehicles) :
                response.vehicles[k].trip.tripId \in TripsDelayedBy(125)
                    => response.vehicles[k].scheduleDeviation = Number(125)
        /\ response.realtimeMetrics.on_time_vehicles
              >= Cardinality({k \in 1..Len(response.vehicles) :
                                 response.vehicles[k].trip.tripId \in TripsDelayedBy(125)})

\* The stop-time update of highest sequence exposes nothing usable, an
\* earlier one carries a scheduleDeviation and an arrival.delay that differ,
\* and the trip has the scheduleDeviation
C15_Witness ==
    /\ Indexed
    /\ UpdatesOf(String("T1")) = {1}
    /\ LET updates == StopTimeUpdatesOf(trip_updates_data.entity[1])
       IN  /\ Len(updates) = 2
           /\ StopSequenceOf(updates[1]) > StopSequenceOf(updates[2])
           /\ Exposes(updates[1]) # <<>>
           /\ UsableValue(updates[1]) = <<>>
           /\ "scheduleDeviation" \in DOMAIN updates[2]
           /\ "arrival" \in DOMAIN updates[2]
           /\ UsableValue(updates[2]) # <<int(updates[2].arrival.delay)[1]>>
           /\ trip_deviations[String("T1")] = UsableValue(updates[2])[1]

\* Two vehicles on a trip whose one stop-time update carries only
\* departure.delay = 125: both have scheduleDeviation 125 and are on time
C15_WitnessDeparture ==
    /\ SnapshotReturned
    /\ TripsDelayedBy(125) = {String("T1")}
    /\ response.vehicles[1].scheduleDeviation = Number(125)
    /\ response.vehicles[3].scheduleDeviation = Number(125)
    /\ response.realtimeMetrics.on_time_vehicles = 2

\* The trip-update entities for the trip that supply a usable deviation
SuppliersOf(trip_id) ==
    {i \in UpdatesOf(trip_id) : Deviation(trip_updates_data.entity[i].tripUpdate) # <<>>}

\* The first of a set of positions in the feed
FirstOf(positions) == CHOOSE i \in positions : \A j \in positions : i <= j

(***************************************************************************)
(* C16. The index of trip deviations holds at most one deviation for a     *)
(* trip id, and when several trip-update entities for one trip id each     *)
(* supply a usable deviation, the deviation recorded is that of the first  *)
(* such entity in the order of the feed: later entities for that trip id   *)
(* are ignored.                                                            *)
(***************************************************************************)
C16_FirstEntityWins ==
    Indexed =>
        \A t \in {String("T1"), String("T2")} :
            /\ t \in DOMAIN trip_deviations <=> SuppliersOf(t) # {}
            /\ SuppliersOf(t) # {} =>
                 <<trip_deviations[t]>> =
                    Deviation(trip_updates_data.entity[FirstOf(SuppliersOf(t))].tripUpdate)

\* Two trip updates for one trip supply different deviations, and the index
\* holds the deviation of the second
C16_Witness ==
    /\ Indexed
    /\ SuppliersOf(String("T1")) = {1, 2}
    /\ Deviation(trip_updates_data.entity[1].tripUpdate)
          # Deviation(trip_updates_data.entity[2].tripUpdate)
    /\ <<trip_deviations[String("T1")]>> = Deviation(trip_updates_data.entity[2].tripUpdate)

\* The deviation a merged vehicle must carry: that of its trip id when the
\* index has one, null otherwise
DeviationFor(vehicle) ==
    IF vehicle.trip.tripId \in DOMAIN trip_deviations
    THEN Number(trip_deviations[vehicle.trip.tripId])
    ELSE None

\* The positions of the vehicles of a list that have a deviation
DeviatedIn(vehicles) ==
    {i \in 1..Len(vehicles) : vehicles[i].scheduleDeviation # None}

(***************************************************************************)
(* C17. The merge puts every extracted vehicle in the output, in order,    *)
(* with or without a deviation: the scheduleDeviation of a vehicle is the  *)
(* deviation recorded for its trip id when one is recorded and stays null  *)
(* otherwise, and total_vehicles_reporting_deviation is the number of      *)
(* output vehicles with a non-null scheduleDeviation, each of several      *)
(* vehicles on one trip being counted.                                     *)
(***************************************************************************)
C17_MergeKeepsEveryVehicle ==
    [][(pc = "deviations_extracted" /\ pc' = "returned") =>
          /\ Len(response'.vehicles) = Len(vehicle_positions)
          /\ \A i \in 1..Len(vehicle_positions) :
                /\ vehicle_positions[i].scheduleDeviation = None
                /\ response'.vehicles[i]
                      = [vehicle_positions[i] EXCEPT
                            !.scheduleDeviation = DeviationFor(vehicle_positions[i])]
          /\ response'.realtimeMetrics.total_vehicles_reporting_deviation
                = Cardinality(DeviatedIn(response'.vehicles))]_vars

\* Three vehicles, the first and the third on a trip with a deviation, the
\* second on a trip without: all three are in the output and two are counted
C17_Witness ==
    /\ SnapshotReturned
    /\ Len(response.vehicles) = 3
    /\ response.vehicles[1].trip.tripId = response.vehicles[3].trip.tripId
    /\ DeviatedIn(response.vehicles) = {1, 3}
    /\ response.vehicles[2].scheduleDeviation = None
    /\ response.realtimeMetrics.total_vehicles_reporting_deviation = 2

\* The deviations of the output vehicles that have one, in output order
OutputDeviations ==
    LET Deviated(v) == v.scheduleDeviation # None
    IN  [i \in 1..Len(SelectSeq(response.vehicles, Deviated)) |->
            SelectSeq(response.vehicles, Deviated)[i].scheduleDeviation.number]

\* The number of the deviations d that are at least lo and at most hi
CountWithin(d, lo, hi) == Cardinality({i \in 1..Len(d) : lo <= d[i] /\ d[i] <= hi})
CountBelow(d, limit) == Cardinality({i \in 1..Len(d) : d[i] < limit})
CountAbove(d, limit) == Cardinality({i \in 1..Len(d) : d[i] > limit})

(***************************************************************************)
(* C18. Every vehicle with a deviation d is counted in exactly one of      *)
(* on-time (-60 <= d <= 300), early (d < -60) and late (d > 300), so that  *)
(* on_time_vehicles + early_vehicles_count + late_vehicles_count =         *)
(* total_vehicles_reporting_deviation <= vehicleCount; deviations of       *)
(* exactly -60 and 300 are on-time; the deviations -200, -70, 50, 400 give *)
(* early 2, late 1, on-time 1.                                             *)
(***************************************************************************)
C18_OnTimeClasses ==
    SnapshotReturned =>
        LET m == response.realtimeMetrics
        IN  /\ m.on_time_vehicles = CountWithin(OutputDeviations, -60, 300)
            /\ m.early_vehicles_count = CountBelow(OutputDeviations, -60)
            /\ m.late_vehicles_count = CountAbove(OutputDeviations, 300)
            /\ m.on_time_vehicles + m.early_vehicles_count + m.late_vehicles_count
                  = m.total_vehicles_reporting_deviation
            /\ m.total_vehicles_reporting_deviation = Len(OutputDeviations)
            /\ m.total_vehicles_reporting_deviation <= response.vehicleCount
            /\ OutputDeviations = <<-200, -70, 50, 400>> =>
                  /\ m.early_vehicles_count = 2
                  /\ m.late_vehicles_count = 1
                  /\ m.on_time_vehicles = 1

\* The four vehicles of the example
C18_Witness ==
    /\ SnapshotReturned
    /\ OutputDeviations = <<-200, -70, 50, 400>>
    /\ response.realtimeMetrics.early_vehicles_count = 2

\* Vehicles at both limits of the window and just outside them
C18_WitnessLimits ==
    /\ SnapshotReturned
    /\ OutputDeviations = <<-60, 300, -60>>
    /\ response.realtimeMetrics.on_time_vehicles = 3

C18_WitnessOutside ==
    /\ SnapshotReturned
    /\ OutputDeviations = <<-61, 301, -61>>
    /\ response.realtimeMetrics.on_time_vehicles = 0
    /\ response.realtimeMetrics.early_vehicles_count = 2
    /\ response.realtimeMetrics.late_vehicles_count = 1

\* x is within half a hundredth of the fraction y and is a whole number of
\* hundredths: x is y rounded to two decimal places
IsRounded(x, y) ==
    /\ 100 % x[2] = 0
    /\ ~RLess(Rat(1, 200), RSub(x, y))
    /\ ~RLess(Rat(1, 200), RSub(y, x))

\* The mean of a sequence of integers, 0 when it is empty
MeanOf(d) == IF Len(d) = 0 THEN Num(0) ELSE Rat(Total(d), Len(d))

\* The deviations of d below -60, as absolute values, and those above 300
EarlyAbsolute(d) ==
    LET Early(x) == x < -60
    IN  [i \in 1..Len(SelectSeq(d, Early)) |-> -SelectSeq(d, Early)[i]]

LateOf(d) == LET Late(x) == x > 300 IN SelectSeq(d, Late)

C19_WitnessEmpty ==
    /\ SnapshotReturned
    /\ response.vehicleCount = 3
    /\ OutputDeviations = <<>>
    /\ response.realtimeMetrics.on_time_percentage = Num(0)
    /\ response.realtimeMetrics.average_overall_deviation_seconds = Num(0)

\* One of three vehicles on time: 33.33 percent, and a mean that is rounded
C19_WitnessThird ==
    /\ SnapshotReturned
    /\ OutputDeviations = <<-200, 50, -200>>
    /\ response.realtimeMetrics.on_time_percentage = Rat(3333, 100)
    /\ response.realtimeMetrics.average_overall_deviation_seconds = Rat(-11667, 100)
    /\ response.realtimeMetrics.average_early_deviation_seconds = Num(200)

\* A fetch has been made and returned a document
Arrived(data) == data # Unbound /\ data # None

\* The work on the documents has begun or is done: something is extracted,
\* merged or returned
MergeStarted ==
    \/ pc \in {"vehicles_extracted", "deviations_extracted", "returned"}
    \/ vehicle_positions # <<>>
    \/ DOMAIN trip_deviations # {}
    \/ response.status = "success"

\* One of the three URLs answers with no document
SomeFetchFails ==
    \E url \in {"vehicle_positions", "trip_updates", "service_alerts"} :
        upstream[url].outcome # "json"

\* The request ended in a failure and nothing of a snapshot is returned
HardFailure ==
    /\ pc = "raised"
    /\ response.status = "error"
    /\ response.status_code = 500
    /\ DOMAIN response = {"status", "status_code", "detail"}

(***************************************************************************)
(* C20. The merge starts only after all three fetches, of the vehicle      *)
(* positions, the trip updates and the service alerts, have completed with *)
(* a document; and when one of the three returns nothing the request ends  *)
(* in a hard failure: no snapshot is returned, not even one made of the    *)
(* documents that did arrive.                                              *)
(***************************************************************************)
C20_JoinBarrier ==
    /\ MergeStarted =>
            /\ Arrived(vehicle_positions_data)
            /\ Arrived(trip_updates_data)
            /\ Arrived(service_alerts_data)
    /\ (\/ vehicle_positions_data = None
        \/ trip_updates_data = None
        \/ service_alerts_data = None) => HardFailure
    /\ SomeFetchFails => ~MergeStarted

\* Two documents arrived, the third fetch returned nothing, and the request
\* failed
C20_Witness ==
    /\ Arrived(vehicle_positions_data)
    /\ Arrived(trip_updates_data)
    /\ service_alerts_data = None
    /\ HardFailure
    /\ ~MergeStarted

\* The first fetch returned nothing: the other two are never made
C20_WitnessFirst ==
    /\ vehicle_positions_data = None
    /\ trip_updates_data = Unbound
    /\ service_alerts_data = Unbound
    /\ HardFailure

\* An alert entity whose url, headerText and descriptionText each have a
\* first translation, or are missing or empty
IsTranslated(entity) ==
    /\ "alert" \in DOMAIN entity
    /\ \A key \in {"url", "headerText", "descriptionText"} :
            key \in DOMAIN entity.alert /\ "translation" \in DOMAIN entity.alert[key]
                => entity.alert[key].translation # <<>>

(***************************************************************************)
(* C21. When all three documents arrive, a malformed entity in one of them *)
(* (a vehicle, trip-update or alert entity with missing, empty or wrongly  *)
(* shaped sub-fields) is skipped and never ends the request in a failure:  *)
(* the request returns a success snapshot whose vehicles are the located   *)
(* vehicle entities and whose alerts are the translated alert entities     *)
(* that remain.                                                            *)
(***************************************************************************)
C21_MalformedEntitySkipped ==
    ~SomeFetchFails =>
        /\ pc # "raised"
        /\ response.status # "error"
        /\ pc = "returned" =>
            /\ response.status = "success"
            /\ SameVehicles(response.vehicles,
                            SelectSeq(EntitiesOf(vehicle_positions_data), IsLocatedOnTrip))
            /\ Len(response.alerts)
                  = Len(SelectSeq(EntitiesOf(service_alerts_data), IsTranslated))

\* All three documents arrived, the first vehicle entity has a null position
\* and the second is located on a trip: the request fails with status 500
C21_Witness ==
    /\ Arrived(vehicle_positions_data)
    /\ Arrived(trip_updates_data)
    /\ Arrived(service_alerts_data)
    /\ Len(EntitiesOf(vehicle_positions_data)) = 2
    /\ "vehicle" \in DOMAIN vehicle_positions_data.entity[1]
    /\ "position" \in DOMAIN vehicle_positions_data.entity[1].vehicle
    /\ vehicle_positions_data.entity[1].vehicle.position = None
    /\ IsLocatedOnTrip(vehicle_positions_data.entity[2])
    /\ HardFailure
    /\ response.detail = "Internal Server Error: 'NoneType' object has no attribute 'get'"

\* The stop-time update the scan comes to has a null arrival: the request of
\* three documents that arrived fails
C21_WitnessArrival ==
    /\ Arrived(service_alerts_data)
    /\ vehicle_positions # <<>>
    /\ Len(EntitiesOf(trip_updates_data)) = 2
    /\ "tripUpdate" \in DOMAIN trip_updates_data.entity[1]
    /\ "stopTimeUpdate" \in DOMAIN trip_updates_data.entity[1].tripUpdate
    /\ "arrival" \in DOMAIN trip_updates_data.entity[1].tripUpdate.stopTimeUpdate[1]
    /\ trip_updates_data.entity[1].tripUpdate.stopTimeUpdate[1].arrival = None
    /\ HardFailure
    /\ response.detail = "Internal Server Error: argument of type 'NoneType' is not iterable"

\* The first alert has a header text with an empty translation list: the
\* request fails after the merge
C21_WitnessAlert ==
    /\ DOMAIN trip_deviations # {}
    /\ Len(EntitiesOf(service_alerts_data)) = 2
    /\ "headerText" \in DOMAIN service_alerts_data.entity[1].alert
    /\ service_alerts_data.entity[1].alert.headerText.translation = <<>>
    /\ IsTranslated(service_alerts_data.entity[2])
    /\ HardFailure
    /\ response.detail = "Internal Server Error: list index out of range"

\* An entity that only lacks sub-fields is skipped: a vehicle without
\* position and trip, a trip update without stop-time updates and an alert
\* without texts leave a success snapshot of the others
C21_WitnessSkipped ==
    /\ SnapshotReturned
    /\ Len(EntitiesOf(vehicle_positions_data)) = 2
    /\ Len(EntitiesOf(trip_updates_data)) = 2
    /\ Len(EntitiesOf(service_alerts_data)) = 2
    /\ "vehicle" \in DOMAIN vehicle_positions_data.entity[1]
    /\ DOMAIN vehicle_positions_data.entity[1].vehicle = {"currentStatus"}
    /\ DOMAIN trip_updates_data.entity[1].tripUpdate = {"timestamp"}
    /\ DOMAIN service_alerts_data.entity[1].alert = {"cause"}
    /\ response.vehicleCount = 1
    /\ Len(response.alerts) = 2

\* The issues of an error list that name one of the five required files
IssuesOfRequiredFiles(errs) ==
    LET Names(i) == "file" \in DOMAIN i /\ i.file \in Range(required_files)
    IN  SelectSeq(IssuesOfType(errs, RequiredFileTypes), Names)

\* The check has run to its end in the last call
HasRun(check) == check \in Range(completed)

ConditionalChecks == {"service_id", "route_id", "coordinates"}

\* No result holds a foreign_key or coordinates issue next to an issue of a
\* required file
NeverWithRequiredFileIssue ==
    \A i \in 1..Len(returned) :
        IssuesOfRequiredFiles(Deref(returned[i]).errors) = <<>>
        \/ IssuesOfType(Deref(returned[i]).errors, {"foreign_key", "coordinates"}) = <<>>

C22_WitnessSkipped ==
    /\ Called
    /\ IssuesOfRequiredFiles(LastResult.errors) # <<>>
    /\ completed = <<"required_files">>
    /\ DanglingServiceIds(feed) = {}

\* The required files pass, trips has no service_id column, and the route-id
\* and coordinate checks never run
C22_WitnessFault ==
    /\ Called
    /\ \A file \in Range(required_files) : ~Defective(feed, file)
    /\ feed["trips"].kind = "df"
    /\ "service_id" \notin Range(feed["trips"].cols)
    /\ completed = <<"required_files">>
    /\ raised # <<>>

\* The required-file check passes and neither calendar nor calendar_dates
\* defines a service id
NoCalendarDefinesServices(f) ==
    /\ \A file \in Range(required_files) : ~Defective(f, file)
    /\ Defines(f, "calendar", "service_id") = {}
    /\ Defines(f, "calendar_dates", "service_id") = {}

\* The missing_file issues of an error list that name both calendar files
CalendarIssues(errs) ==
    LET Names(i) == "file" \in DOMAIN i /\ i.file = "calendar.txt/calendar_dates.txt"
    IN  SelectSeq(IssuesOfType(errs, {"missing_file"}), Names)

C23_WitnessCoordinates ==
    /\ Called
    /\ NoCalendarDefinesServices(feed)
    /\ Len(LastResult.errors) = 2
    /\ LastResult.errors[1] = CalendarMissingIssue
    /\ LastResult.errors[2].type = "coordinates"

\* No calendar defines a service and trips has no service_id column: the
\* service-id check raises and the result holds no missing_file error
C23_WitnessFault ==
    /\ Called
    /\ NoCalendarDefinesServices(feed)
    /\ feed["trips"].kind = "df"
    /\ "service_id" \notin Range(feed["trips"].cols)
    /\ "calendar" \in DOMAIN feed
    /\ feed["calendar"] = None
    /\ CalendarIssues(LastResult.errors) = <<>>
    /\ raised # <<>>

\* The stop-time update exposes a value that int() does not convert
FailsConversion(update) == Exposes(update) # <<>> /\ UsableValue(update) = <<>>

\* The integer of a delay the stop-time update carries under key, behind the
\* value it exposes; <<>> when it carries none
DelayBehind(update, key) ==
    IF key \in DOMAIN update /\ "delay" \in DOMAIN update[key]
       /\ Exposes(update) # <<update[key].delay>>
    THEN int(update[key].delay)
    ELSE <<>>

(***************************************************************************)
(* C24. When the value a stop-time update exposes (its scheduleDeviation,  *)
(* or the delay exposed in its place) fails integer conversion, the value  *)
(* is discarded and the scan goes on to the next earlier stop-time update, *)
(* without trying the arrival.delay or departure.delay of the same entry:  *)
(* the deviation of the trip is the value of the latest entry that exposes *)
(* a convertible value, and a trip none of whose stop-time updates exposes *)
(* a convertible value gets no deviation, whatever delays lie behind the   *)
(* values that failed.                                                     *)
(***************************************************************************)
C24_FailedConversionDiscarded ==
    Indexed =>
        \A t \in {String("T1"), String("T2")} :
            \A i \in UpdatesOf(t) :
                UpdatesOf(t) = {i} =>
                    LET updates == StopTimeUpdatesOf(trip_updates_data.entity[i])
                        failed == {j \in 1..Len(updates) : FailsConversion(updates[j])}
                        usable == {j \in 1..Len(updates) : UsableValue(updates[j]) # <<>>}
                    IN  /\ usable = {} => t \notin DOMAIN trip_deviations
                        /\ (failed # {} /\ usable # {}) =>
                                /\ t \in DOMAIN trip_deviations
                                /\ \E k \in usable :
                                        /\ trip_deviations[t] = UsableValue(updates[k])[1]
                                        /\ \A j \in usable :
                                              StopSequenceOf(updates[j])
                                                  <= StopSequenceOf(updates[k])

\* The entry of highest sequence carries a scheduleDeviation that is no
\* number and an arrival.delay of -70; the scan discards it and takes the
\* value of the earlier entry
C24_Witness ==
    /\ Indexed
    /\ UpdatesOf(String("T1")) = {1}
    /\ LET updates == StopTimeUpdatesOf(trip_updates_data.entity[1])
       IN  /\ Len(updates) = 2
           /\ StopSequenceOf(updates[2]) > StopSequenceOf(updates[1])
           /\ FailsConversion(updates[2])
           /\ DelayBehind(updates[2], "arrival") = <<-70>>
           /\ UsableValue(updates[1]) = <<125>>
           /\ trip_deviations[String("T1")] = 125

\* The only entry carries a scheduleDeviation that is no number and an
\* arrival.delay of -70: the trip gets no deviation and its vehicles keep a
\* null scheduleDeviation
C24_WitnessNone ==
    /\ SnapshotReturned
    /\ UpdatesOf(String("T1")) = {1}
    /\ LET updates == StopTimeUpdatesOf(trip_updates_data.entity[1])
       IN  /\ Len(updates) = 1
           /\ FailsConversion(updates[1])
           /\ DelayBehind(updates[1], "arrival") = <<-70>>
    /\ String("T1") \notin DOMAIN trip_deviations
    /\ response.vehicles[1].scheduleDeviation = None
    /\ response.realtimeMetrics.total_vehicles_reporting_deviation = 0

\* The only entry has no scheduleDeviation, an arrival.delay that is no
\* number and a departure.delay of 125: the departure is not tried
C24_WitnessDelay ==
    /\ Indexed
    /\ UpdatesOf(String("T1")) = {1}
    /\ LET updates == StopTimeUpdatesOf(trip_updates_data.entity[1])
       IN  /\ Len(updates) = 1
           /\ "scheduleDeviation" \notin DOMAIN updates[1]
           /\ FailsConversion(updates[1])
           /\ DelayBehind(updates[1], "departure") = <<125>>
    /\ String("T1") \notin DOMAIN trip_deviations

\* generate_report has been called on the feed
ReportMade == report.status # "none"

\* The improve-completeness recommendations of the report that name the file
ImprovementsFor(file) ==
    LET Names(rec) == rec.fmt = "Improve data completeness in {file}.txt (currently {comp_score:.1f}%)"
                      /\ rec.file = file
    IN  SelectSeq(report.value.summary.recommendations, Names)

(***************************************************************************)
(* C25. The completeness map computed for a feed never has a               *)
(* calendar_dates key and always has a calendar key, whose value is the    *)
(* completeness of calendar_dates if that of calendar is 0 and that of     *)
(* calendar_dates is above 0, the completeness of calendar if that of      *)
(* calendar_dates is 0 and that of calendar is above 0, the larger of the  *)
(* two if both are above 0, and 0 if both are 0; no recommendation of a    *)
(* report names calendar_dates.                                            *)
(***************************************************************************)
C25_CalendarCollapsed ==
    ReportMade =>
        LET completeness == calculate_completeness(report_feed)
            calendar == FileCompleteness(report_feed, "calendar")
            calendar_dates == FileCompleteness(report_feed, "calendar_dates")
        IN  /\ "calendar_dates" \notin DOMAIN completeness
            /\ "calendar" \in DOMAIN completeness
            /\ (calendar = Num(0) /\ RLess(Num(0), calendar_dates))
                    => completeness["calendar"] = calendar_dates
            /\ (calendar_dates = Num(0) /\ RLess(Num(0), calendar))
                    => completeness["calendar"] = calendar
            /\ (RLess(Num(0), calendar) /\ RLess(Num(0), calendar_dates))
                    => /\ completeness["calendar"] \in {calendar, calendar_dates}
                       /\ ~RLess(completeness["calendar"], calendar)
                       /\ ~RLess(completeness["calendar"], calendar_dates)
            /\ (calendar = Num(0) /\ calendar_dates = Num(0))
                    => completeness["calendar"] = Num(0)
            /\ report.status = "returned" => ImprovementsFor("calendar_dates") = <<>>

\* calendar is 40 percent complete and calendar_dates 60: the map holds 60
\* for calendar, and the report recommends improving calendar at 60.0
C25_Witness ==
    /\ report.status = "returned"
    /\ FileCompleteness(report_feed, "calendar") = Num(40)
    /\ FileCompleteness(report_feed, "calendar_dates") = Num(60)
    /\ calculate_completeness(report_feed)["calendar"] = Num(60)
    /\ Len(ImprovementsFor("calendar")) = 1
    /\ ImprovementsFor("calendar")[1].tenths = 600

\* calendar is absent and calendar_dates is 20 percent complete: the map
\* holds 20 for calendar
C25_WitnessDates ==
    /\ report.status = "returned"
    /\ "calendar" \notin DOMAIN report_feed
    /\ FileCompleteness(report_feed, "calendar_dates") = Num(20)
    /\ calculate_completeness(report_feed)["calendar"] = Num(20)

\* calendar has a row of missing cells only and calendar_dates is None: the
\* map holds 0 for calendar
C25_WitnessZero ==
    /\ report.status = "returned"
    /\ {"calendar", "calendar_dates"} \subseteq DOMAIN report_feed
    /\ report_feed["calendar"] = Frame(0)
    /\ report_feed["calendar_dates"] = None
    /\ calculate_completeness(report_feed)["calendar"] = Num(0)

\* The add recommendations of the report that name the file
AdditionsFor(file) ==
    LET Names(rec) == rec.fmt = "Consider adding {file}.txt or improving its completeness"
                      /\ rec.file = file
    IN  SelectSeq(report.value.summary.recommendations, Names)

\* The table is absent, None or a DataFrame without rows
IsLacking(f, file) ==
    \/ file \notin DOMAIN f
    \/ f[file] = None
    \/ (f[file].kind = "df" /\ Len(f[file].rows) = 0)

(***************************************************************************)
(* C26. For each optional file of feed_info, shapes, frequencies,          *)
(* transfers, pathways, levels and fare_attributes, the recommendations of *)
(* a report hold exactly one add/improve recommendation naming the file    *)
(* when the completeness of the file, the percentage of its cells that are *)
(* not missing, is zero, and none when it is above zero.                   *)
(***************************************************************************)
C26_OptionalFileRecommended ==
    report.status = "returned" =>
        \A file \in Range(optional_files) :
            Len(AdditionsFor(file))
                = IF FileCompleteness(report_feed, file) = Num(0) THEN 1 ELSE 0

\* What the loop does: one recommendation for a file that is absent, None or
\* without rows, none for a file with rows
C26_RecommendedWhenLacking ==
    report.status = "returned" =>
        \A file \in Range(optional_files) :
            /\ Len(AdditionsFor(file)) = IF IsLacking(report_feed, file) THEN 1 ELSE 0
            /\ RLess(Num(0), FileCompleteness(report_feed, file)) => AdditionsFor(file) = <<>>

\* shapes has one row, of missing cells only: its completeness is zero and
\* no recommendation names it, while the absent feed_info is recommended
C26_Witness ==
    /\ report.status = "returned"
    /\ "shapes" \in DOMAIN report_feed
    /\ report_feed["shapes"] = Frame(0)
    /\ FileCompleteness(report_feed, "shapes") = Num(0)
    /\ AdditionsFor("shapes") = <<>>
    /\ "feed_info" \notin DOMAIN report_feed
    /\ Len(AdditionsFor("feed_info")) = 1

\* levels is partly filled and pathways has no rows: one recommendation for
\* pathways, none for levels
C26_WitnessFilled ==
    /\ report.status = "returned"
    /\ {"levels", "pathways"} \subseteq DOMAIN report_feed
    /\ FileCompleteness(report_feed, "levels") = Num(40)
    /\ report_feed["pathways"] = EmptyFrame
    /\ AdditionsFor("levels") = <<>>
    /\ Len(AdditionsFor("pathways")) = 1

\* tenths is the number of tenths nearest to the fraction c
IsNearestTenth(tenths, c) ==
    LET distance == 10 * c[1] - tenths * c[2]
    IN  2 * (IF distance < 0 THEN -distance ELSE distance) <= c[2]

(***************************************************************************)
(* C27. For each file of the collapsed completeness map that is not an     *)
(* optional file, the recommendations of a report hold one                 *)
(* improve-completeness recommendation naming the file and citing its      *)
(* percentage, to one decimal place, when its completeness is strictly     *)
(* between 0 and 80, and none when it is exactly 0 or is 80 or above.      *)
(***************************************************************************)
C27_ImproveBetween0And80 ==
    report.status = "returned" =>
        LET completeness == calculate_completeness(report_feed)
        IN  \A file \in DOMAIN completeness \ Range(optional_files) :
                IF RLess(Num(0), completeness[file]) /\ RLess(completeness[file], Num(80))
                THEN /\ Len(ImprovementsFor(file)) = 1
                     /\ IsNearestTenth(ImprovementsFor(file)[1].tenths, completeness[file])
                ELSE ImprovementsFor(file) = <<>>

\* stops is 60 percent complete and trips exactly 80: one recommendation, for
\* stops, citing 60.0
C27_Witness ==
    /\ report.status = "returned"
    /\ calculate_completeness(report_feed)["stops"] = Num(60)
    /\ calculate_completeness(report_feed)["trips"] = Num(80)
    /\ Len(ImprovementsFor("stops")) = 1
    /\ ImprovementsFor("stops")[1].tenths = 600
    /\ ImprovementsFor("trips") = <<>>

\* routes has rows of missing cells only, completeness 0, and agency two
\* cells of three: none for routes, one for agency citing 66.7
C27_WitnessZero ==
    /\ report.status = "returned"
    /\ "routes" \in DOMAIN report_feed
    /\ report_feed["routes"] = Frame(0)
    /\ calculate_completeness(report_feed)["routes"] = Num(0)
    /\ calculate_completeness(report_feed)["agency"] = Rat(200, 3)
    /\ ImprovementsFor("routes") = <<>>
    /\ Len(ImprovementsFor("agency")) = 1
    /\ ImprovementsFor("agency")[1].tenths = 667

\* The routes table of the feed has rows, a route_id and a route_color column
HasColoredRoutes(f) ==
    /\ "routes" \in DOMAIN f
    /\ f["routes"].kind = "df"
    /\ Len(f["routes"].rows) > 0
    /\ {"route_id", "route_color"} \subseteq Range(f["routes"].cols)

\* What a reported string holds, as text, so that the name of a color and a
\* fixed text compare
Shown(value) == ToString(value.v)

\* The name of the color group of a row of routes
ColorGroupOf(f, r) ==
    IF IsNA(Column(f["routes"], "route_color")[r]) THEN Shown(Py("str", "No Color Specified"))
    ELSE Shown(Py("str", Column(f["routes"], "route_color")[r][1]))

\* The rows of routes in the group, and those of them with a text color
RoutesOfGroup(f, group) == {r \in 1..Len(f["routes"].rows) : ColorGroupOf(f, r) = group}

WithTextColor(f, group) ==
    IF "route_text_color" \in Range(f["routes"].cols)
    THEN {r \in RoutesOfGroup(f, group) : ~IsNA(Column(f["routes"], "route_text_color")[r])}
    ELSE {}

\* The first non-missing route_text_color of the group, "000000" without one
FirstTextColor(f, group) ==
    IF WithTextColor(f, group) = {} THEN Shown(Py("str", "000000"))
    ELSE Shown(Py("str", Column(f["routes"], "route_text_color")
                            [CHOOSE r \in WithTextColor(f, group) :
                                \A q \in WithTextColor(f, group) : r <= q][1]))

\* The list reported under "Route Colors", and a value of its entry i
RouteColorsReported == Item(report.value.metrics, "Route Colors").items

ReportedOfGroup(i, key) == Shown(Item(RouteColorsReported[i], key))

(***************************************************************************)
(* C28. The routes are grouped by route_color, a missing color being the   *)
(* group "No Color Specified": the report holds one entry for each group,  *)
(* with the number of the routes of the group and, as its representative   *)
(* route_text_color, the first non-missing route_text_color among the      *)
(* routes of the group, or "000000" when the group has none.               *)
(***************************************************************************)
C28_RouteColorGroups ==
    (report.status = "returned" /\ HasColoredRoutes(report_feed)) =>
        LET groups == {ColorGroupOf(report_feed, r) : r \in 1..Len(report_feed["routes"].rows)}
        IN  /\ Len(RouteColorsReported) = Cardinality(groups)
            /\ {ReportedOfGroup(i, "route_color") :
                    i \in 1..Len(RouteColorsReported)} = groups
            /\ \A i \in 1..Len(RouteColorsReported) :
                  LET group == ReportedOfGroup(i, "route_color")
                  IN  /\ Item(RouteColorsReported[i], "count")
                            = Py("int", Cardinality(RoutesOfGroup(report_feed, group)))
                      /\ ReportedOfGroup(i, "sample_text_color")
                            = FirstTextColor(report_feed, group)

\* The same, with the text color of the first route of the group, "000000"
\* when that route has none, as the representative
C28_FirstRouteOfGroup ==
    (report.status = "returned" /\ HasColoredRoutes(report_feed)) =>
        \A i \in 1..Len(RouteColorsReported) :
            LET group == ReportedOfGroup(i, "route_color")
                first == CHOOSE r \in RoutesOfGroup(report_feed, group) :
                            \A q \in RoutesOfGroup(report_feed, group) : r <= q
            IN  /\ Item(RouteColorsReported[i], "count")
                      = Py("int", Cardinality(RoutesOfGroup(report_feed, group)))
                /\ ReportedOfGroup(i, "sample_text_color")
                      = IF first \in WithTextColor(report_feed, group)
                        THEN FirstTextColor(report_feed, group)
                        ELSE Shown(Py("str", "000000"))

\* Two routes of one color, the first without a text color and the second
\* with one: the group is reported with "000000", not with the text color
\* of the second route
C28_Witness ==
    /\ report.status = "returned"
    /\ HasColoredRoutes(report_feed)
    /\ \E i \in 1..Len(RouteColorsReported) :
          LET group == ReportedOfGroup(i, "route_color")
          IN  /\ Cardinality(RoutesOfGroup(report_feed, group)) = 2
              /\ Cardinality(WithTextColor(report_feed, group)) = 1
              /\ Item(RouteColorsReported[i], "count") = Py("int", 2)
              /\ ReportedOfGroup(i, "sample_text_color") = Shown(Py("str", "000000"))
              /\ FirstTextColor(report_feed, group) # Shown(Py("str", "000000"))

\* A route without a color is in the group "No Color Specified", reported
\* with its own text color
C28_WitnessNoColor ==
    /\ report.status = "returned"
    /\ HasColoredRoutes(report_feed)
    /\ \E i \in 1..Len(RouteColorsReported) :
          /\ ReportedOfGroup(i, "route_color") = Shown(Py("str", "No Color Specified"))
          /\ Item(RouteColorsReported[i], "count") = Py("int", 1)
          /\ ReportedOfGroup(i, "sample_text_color")
                = FirstTextColor(report_feed, Shown(Py("str", "No Color Specified")))
          /\ WithTextColor(report_feed, Shown(Py("str", "No Color Specified"))) # {}


\* The times of a column of stop_times that are not missing
TimesOf(f, name) ==
    {c[1] : c \in {x \in Range(Column(f["stop_times"], name)) : ~IsNA(x)}}

\* stop_times has rows with a departure and an arrival time
HasTimes(f) ==
    /\ "stop_times" \in DOMAIN f
    /\ f["stop_times"] # None
    /\ f["stop_times"].kind = "df"
    /\ Len(f["stop_times"].rows) > 0
    /\ {"departure_time", "arrival_time"} \subseteq Range(f["stop_times"].cols)
    /\ TimesOf(f, "departure_time") # {}
    /\ TimesOf(f, "arrival_time") # {}

\* stop_times is absent, or a table without rows
NoStopTimes(f) ==
    \/ "stop_times" \notin DOMAIN f
    \/ f["stop_times"] = None
    \/ f["stop_times"].kind = "df" /\ Len(f["stop_times"].rows) = 0

\* The earliest departure and the latest arrival, in seconds past midnight
EarliestOf(f) ==
    CHOOSE x \in TimesOf(f, "departure_time") : \A y \in TimesOf(f, "departure_time") : x <= y

LatestOf(f) ==
    CHOOSE x \in TimesOf(f, "arrival_time") : \A y \in TimesOf(f, "arrival_time") : x >= y

\* The span of the claim, in seconds
SpanOf(f) ==
    IF LatestOf(f) >= EarliestOf(f) THEN LatestOf(f) - EarliestOf(f)
    ELSE (86400 - EarliestOf(f)) + LatestOf(f)

\* The service hours of the report made
ServiceHoursReported == Item(Item(report.value.metrics, "Service Dates"), "service_hours")

\* The report holds the span of the feed, in hours, between its two times
SpanReported ==
    /\ Shown(Item(ServiceHoursReported, "earliest_service")) = ToString(EarliestOf(report_feed))
    /\ Shown(Item(ServiceHoursReported, "latest_service")) = ToString(LatestOf(report_feed))
    /\ Item(ServiceHoursReported, "service_hours").py = "float"
    /\ Item(ServiceHoursReported, "service_hours").v = Rat(SpanOf(report_feed), 3600)

\* The report holds the default: "00:00:00" twice and the span 0
DefaultReported ==
    /\ Shown(Item(ServiceHoursReported, "earliest_service")) = ToString("00:00:00")
    /\ Shown(Item(ServiceHoursReported, "latest_service")) = ToString("00:00:00")
    /\ Item(ServiceHoursReported, "service_hours").py = "int"
    /\ Item(ServiceHoursReported, "service_hours").v = 0

(***************************************************************************)
(* C29. With the earliest and the latest scheduled time in seconds past    *)
(* midnight, the service span is latest - earliest when latest >= earliest *)
(* and (86400 - earliest) + latest when latest < earliest, and it is never *)
(* negative; a feed whose stop_times is absent or empty is reported with   *)
(* the default, earliest = latest = "00:00:00" and the span 0, and no      *)
(* error.                                                                  *)
(***************************************************************************)
C29_SpanNeverNegative ==
    report.status = "returned" =>
        /\ HasTimes(report_feed) =>
              /\ SpanReported
              /\ SpanOf(report_feed) >= 0
              /\ ~RLess(Item(ServiceHoursReported, "service_hours").v, Num(0))
        /\ NoStopTimes(report_feed) => DefaultReported

\* The same, the span being negative exactly when the earliest time is more
\* than a day after the latest one, which takes an earliest time past
\* 24:00:00
C29_ServiceSpan ==
    report.status = "returned" =>
        /\ HasTimes(report_feed) =>
              /\ SpanReported
              /\ RLess(Item(ServiceHoursReported, "service_hours").v, Num(0))
                    <=> EarliestOf(report_feed) - LatestOf(report_feed) > 86400
              /\ EarliestOf(report_feed) <= 86400
                    => ~RLess(Item(ServiceHoursReported, "service_hours").v, Num(0))
        /\ NoStopTimes(report_feed) => DefaultReported

\* A generated report is never refused for a stop_times that is absent or
\* empty
C29_NoErrorWithoutStopTimes ==
    (report.status # "none" /\ NoStopTimes(report_feed)) => report.status = "returned"

\* The first departure at 01:00:00 and the last arrival at 00:01:40: the span
\* crosses midnight and is 82900 seconds
C29_Witness ==
    /\ report.status = "returned"
    /\ HasTimes(report_feed)
    /\ EarliestOf(report_feed) = 3600
    /\ LatestOf(report_feed) = 100
    /\ Item(ServiceHoursReported, "service_hours").py = "float"
    /\ Item(ServiceHoursReported, "service_hours").v = Rat(82900, 3600)

\* The first departure at 25:00:00 and the last arrival at 00:01:40: the
\* span reported is negative, -3500 seconds
C29_WitnessNegative ==
    /\ report.status = "returned"
    /\ HasTimes(report_feed)
    /\ EarliestOf(report_feed) = 90000
    /\ LatestOf(report_feed) = 100
    /\ Item(ServiceHoursReported, "service_hours").py = "float"
    /\ Item(ServiceHoursReported, "service_hours").v = Rat(-3500, 3600)

\* The last arrival after the first departure: the span is their difference
C29_WitnessSameDay ==
    /\ report.status = "returned"
    /\ HasTimes(report_feed)
    /\ EarliestOf(report_feed) = 3660
    /\ LatestOf(report_feed) = 7200
    /\ Item(ServiceHoursReported, "service_hours").py = "float"
    /\ Item(ServiceHoursReported, "service_hours").v = Rat(3540, 3600)

\* A feed without stop_times, and one whose stop_times has no rows, are
\* reported with the default
C29_WitnessAbsent ==
    /\ report.status = "returned"
    /\ "stop_times" \notin DOMAIN report_feed
    /\ DefaultReported

C29_WitnessEmpty ==
    /\ report.status = "returned"
    /\ "stop_times" \in DOMAIN report_feed
    /\ report_feed["stop_times"] = EmptyFrame
    /\ DefaultReported


(***************************************************************************)
(* The router of api/validation.py: its startup event, POST /validate and  *)
(* GET /report, which share the global last_validated_feed.                *)
(* SpecSession: the startup, then up to MaxUploads uploads and any number  *)
(* of report requests, in any order.                                       *)
(***************************************************************************)
MaxUploads == 3   \* uploads to POST /validate

\* The feeds gk.read_feed reads: the base feed, one with service dates, one
\* without agency.txt, which validation finds invalid, and one whose routes
\* have a color and no route_id, of which no report can be made
SessionFeeds ==
    {BaseFeed,
     MakeFeed(BaseTables @@ [get_dates |-> [kind |-> "method", dates |-> MaxId]]),
     MakeFeed([BaseTables EXCEPT !.agency = Absent]),
     MakeFeed([BaseTables EXCEPT !.routes = IdFrame("route_color", <<1>>)])}

\* A file, by what gk.read_feed makes of it: a feed, None, or an exception
FileContents ==
    {[kind |-> "feed", feed |-> f] : f \in SessionFeeds}
        \cup {[kind |-> "none"], [kind |-> "raise", exc |-> "File is not a zip file"]}

Uploads ==
    {[filename |-> "feed.zip", content |-> c] : c \in FileContents}
        \cup {[filename |-> "feed.txt", content |-> [kind |-> "feed", feed |-> BaseFeed]]}

Formats == {"json", "CSV"}

\* str.endswith
EndsWith(s, suffix) ==
    Len(s) >= Len(suffix) /\ SubSeq(s, Len(s) - Len(suffix) + 1, Len(s)) = suffix

\* A response of status 200
Ok(media_type, body) ==
    [status |-> "ok", status_code |-> 200, media_type |-> media_type, body |-> body]

\* str() of an HTTPException
StrOf(he) == ToString(he.status_code) \o ": " \o he.detail

\* An exception of the inner try of validate_gtfs, caught there and, as the
\* HTTPException raised for it, caught again by the outer try
Caught(e) ==
    HTTPException(500, "File processing failed: "
                          \o StrOf(HTTPException(500, "Validation failed: " \o e)))

\* What validate_gtfs returns of the validation results v and the outcome r
\* of generate_report(v)
ValidationAnswer(v, r, format) ==
    IF r.status = "raised" THEN Caught(Concat(r.exc))
    ELSE IF Lower(format) = "csv" THEN Ok("text/csv", export_csv(r.value))
    ELSE Ok("application/json",
            [is_valid |-> v.is_valid, errors |-> v.errors, warnings |-> v.warnings,
             feed_info |-> r.value.feed_info, metrics |-> r.value.metrics,
             summary |-> r.value.summary])

AnswerOfFeed(f, v, format) == ValidationAnswer(v, generate_report(f, v), format)

\* The response of POST /validate to an upload
validate_gtfs(upload, format) ==
    IF ~EndsWith(upload.filename, ".zip")
    THEN HTTPException(400, "Only ZIP files are accepted")
    ELSE IF upload.content.kind = "raise" THEN Caught(upload.content.exc)
    ELSE IF upload.content.kind = "none"
    THEN Caught(StrOf(HTTPException(400, "Failed to read GTFS feed: Feed is None")))
    ELSE AnswerOfFeed(upload.content.feed, ValidatedResult(upload.content.feed), format)

\* JSONResponse(content=report), or the exception of its json.dumps
JSONResponse(j) ==
    IF j.status = "returned" THEN Ok("application/json", j.text)
    ELSE HTTPException(500, "Internal Server Error while generating report: " \o Concat(j.exc))

\* What get_validation_report returns of the outcome r of generate_report
ReportAnswer(r, format) ==
    IF r.status = "raised"
    THEN HTTPException(500, "Internal Server Error while generating report: "
                               \o Concat(r.exc))
    ELSE IF Lower(format) = "csv" THEN Ok("text/csv", export_csv(r.value))
    ELSE JSONResponse(export_json(r.value))

\* The response of GET /report when last_validated_feed is cached
get_validation_report(cached, format) ==
    IF cached = None
    THEN HTTPException(404, "No GTFS feed has been validated yet.")
    ELSE ReportAnswer(generate_report(cached, ValidatedResult(cached)), format)

\* startup_event: the feed of current_feed.zip, if it is there and is read
Startup ==
    /\ ~serving
    /\ serving' = TRUE
    /\ last_validated_feed' =
          IF current_feed_zip.kind = "feed" THEN current_feed_zip.feed
          ELSE last_validated_feed
    /\ UNCHANGED <<current_feed_zip, uploads, answered, vvars, rvars, tvars>>

\* The upload was read: a zip by its name, of which gk.read_feed made a feed
WasRead(upload) == EndsWith(upload.filename, ".zip") /\ upload.content.kind = "feed"

\* The feed cached only once validation has found it valid
StoredFeedIfValid(upload, cached) ==
    IF WasRead(upload) /\ ValidatedResult(upload.content.feed).is_valid
    THEN upload.content.feed
    ELSE cached

\* last_validated_feed after the upload: the feed read, whatever validation
\* makes of it, and the feed cached before when none was read
StoredFeed(upload, cached) == IF WasRead(upload) THEN upload.content.feed ELSE cached

\* POST /validate: the feed read is cached and the file kept before the feed
\* is validated
ValidateGtfs ==
    /\ serving
    /\ Len(uploads) < MaxUploads
    /\ \E upload \in Uploads, format \in Formats :
          /\ uploads' = Append(uploads, upload)
          /\ last_validated_feed' = StoredFeed(upload, last_validated_feed)
          /\ current_feed_zip' = IF WasRead(upload) THEN upload.content ELSE current_feed_zip
          /\ answered' = [request |-> "validate", format |-> format,
                          response |-> validate_gtfs(upload, format)]
    /\ UNCHANGED <<serving, vvars, rvars, tvars>>

\* GET /report
GetValidationReport ==
    /\ serving
    /\ \E format \in Formats :
          answered' = [request |-> "report", format |-> format,
                       response |-> get_validation_report(last_validated_feed, format)]
    /\ UNCHANGED <<serving, current_feed_zip, last_validated_feed, uploads,
                   vvars, rvars, tvars>>

\* The router before its startup: current_feed.zip is not there, or is the
\* file an earlier run has left
InitSession ==
    /\ feed = BaseFeed
    /\ NewValidator
    /\ NoReport
    /\ NoRealtime
    /\ serving = FALSE
    /\ current_feed_zip \in {[kind |-> "absent"]} \cup FileContents
    /\ last_validated_feed = None
    /\ uploads = <<>>
    /\ answered = [request |-> "none"]

NextSession == Startup \/ ValidateGtfs \/ GetValidationReport

SpecSession == InitSession /\ [][NextSession]_vars

\* The uploads read so far, and the feed of the last of them
ReadUploads == SelectSeq(uploads, WasRead)

LastRead == ReadUploads[Len(ReadUploads)].content.feed

\* The response "no feed validated yet"
NoFeedYet(resp) == resp.status = "error" /\ resp.status_code = 404

\* The last request was a report request, answered as for the feed f
ReportedOn(f) ==
    /\ answered.request = "report"
    /\ answered.response = get_validation_report(f, answered.format)

(***************************************************************************)
(* C30. Across any sequence of uploads and report requests, a report       *)
(* request is answered "no feed validated yet" exactly while no upload has *)
(* been read, and afterwards with the report on the feed of the last       *)
(* upload that was read: the cached feed is that feed, whether validation  *)
(* finds it valid or not, and an upload that is not read leaves it as it   *)
(* is.                                                                     *)
(***************************************************************************)
C30_LastReadUploadCached ==
    serving =>
        /\ last_validated_feed = (IF ReadUploads = <<>> THEN None ELSE LastRead)
        /\ answered.request = "report" =>
              /\ NoFeedYet(answered.response) <=> ReadUploads = <<>>
              /\ ReadUploads # <<>> => ReportedOn(LastRead)

\* The feed cached when the uploads so far are taken into account: that of
\* the last upload read or, without one, the feed the startup has read from
\* the file an earlier run has left
CachedFeed ==
    IF ReadUploads # <<>> THEN LastRead
    ELSE IF current_feed_zip.kind = "feed" THEN current_feed_zip.feed
    ELSE None

\* The same, a feed loaded at the startup counting as cached until an upload
\* is read
C30_CachedFeedReported ==
    serving =>
        /\ last_validated_feed = CachedFeed
        /\ answered.request = "report" =>
              /\ NoFeedYet(answered.response) <=> CachedFeed = None
              /\ ReportedOn(CachedFeed)

\* An upload that is not read leaves the cached feed, an upload that is read
\* replaces it, and a report request leaves it
C30_ReplacedByReadUploads ==
    [][serving =>
          /\ uploads' # uploads =>
                last_validated_feed' =
                    IF WasRead(uploads'[Len(uploads')])
                    THEN uploads'[Len(uploads')].content.feed
                    ELSE last_validated_feed
          /\ uploads' = uploads => last_validated_feed' = last_validated_feed]_vars

\* Two feeds are read, the second of them invalid, and a third upload is not
\* read: the file kept is the second one, and the report is that of the
\* second feed, which is not the report of the first
C30_Witness ==
    /\ serving
    /\ Len(uploads) = 3
    /\ current_feed_zip = uploads[2].content
    /\ WasRead(uploads[1]) /\ WasRead(uploads[2]) /\ ~WasRead(uploads[3])
    /\ uploads[1].content.feed = BaseFeed
    /\ ~ValidatedResult(uploads[2].content.feed).is_valid
    /\ last_validated_feed = uploads[2].content.feed
    /\ answered.request = "report"
    /\ answered.response.status = "ok"
    /\ ReportedOn(uploads[2].content.feed)
    /\ ~ReportedOn(uploads[1].content.feed)

\* No file at the startup and no upload read, one of them by its name: the
\* report request is answered "no feed validated yet"
C30_WitnessNoFeed ==
    /\ serving
    /\ Len(uploads) = 2
    /\ ReadUploads = <<>>
    /\ \E i \in 1..2 : ~EndsWith(uploads[i].filename, ".zip")
    /\ last_validated_feed = None
    /\ answered.request = "report"
    /\ NoFeedYet(answered.response)

\* The file of an earlier run is read at the startup: without any upload the
\* report request is answered with the report on its feed
C30_WitnessStartup ==
    /\ serving
    /\ uploads = <<>>
    /\ last_validated_feed = BaseFeed
    /\ answered.request = "report"
    /\ answered.response.status = "ok"

\* The upload of an invalid feed is answered with its validation results
\* and the feed is cached
C30_WitnessInvalid ==
    /\ serving
    /\ Len(uploads) = 1
    /\ WasRead(uploads[1])
    /\ answered.request = "validate"
    /\ answered.response.status = "ok"
    /\ answered.response.media_type = "application/json"
    /\ ~answered.response.body.is_valid
    /\ last_validated_feed = uploads[1].content.feed

=============================================================================
